---- MODULE Spec2Model ----
(***************************************************************************)
(* A model of the SLCSP premium pipeline: the Rating-Area Resolver         *)
(* (mergeLA9.py, merge6boston.py), the Quote Extractor                     *)
(* (scrape_kff_calculator) and the Batch Runners (app.py, app2.py,         *)
(* run_scraper_2026.py, scraper_v2.py).                                    *)
(*                                                                         *)
(* Python strings whose characters matter (ZIP codes, county names, the    *)
(* cost text of the results page) are sequences of one-character strings.  *)
(***************************************************************************)
EXTENDS Integers, Sequences, FiniteSets, TLC

(***************************************************************************)
(* Bounds of the model.                                                    *)
(***************************************************************************)
MaxRecords == 2

MaxRules == 2

(***************************************************************************)
(* Python str operations.                                                  *)
(***************************************************************************)
DigitChars == <<"0", "1", "2", "3", "4", "5", "6", "7", "8", "9">>

DigitSet == {DigitChars[i] : i \in 1..10}

DigitValue(c) == (CHOOSE i \in 1..10 : DigitChars[i] = c) - 1

\* str.isdigit(): non-empty and every character a digit
isdigit(s) == Len(s) > 0 /\ \A i \in 1..Len(s) : s[i] \in DigitSet

RECURSIVE str(_)
\* str(n) of a non-negative integer
str(n) == IF n < 10 THEN <<DigitChars[n + 1]>>
          ELSE str(n \div 10) \o <<DigitChars[(n % 10) + 1]>>

RECURSIVE zfill(_, _)
\* str.zfill(width): pad with "0" on the left up to width
zfill(s, width) == IF Len(s) >= width THEN s ELSE zfill(<<"0">> \o s, width)

RECURSIVE int(_)
\* int(s) of a digit string, as read_csv parses an all-digit column
int(s) == IF Len(s) = 0 THEN 0
          ELSE 10 * int(SubSeq(s, 1, Len(s) - 1)) + DigitValue(s[Len(s)])

\* s[:n]
Prefix(s, n) == SubSeq(s, 1, IF Len(s) < n THEN Len(s) ELSE n)

StartsWithAt(s, i, old) ==
    /\ s[i] = old[1]
    /\ i + Len(old) - 1 <= Len(s)
    /\ SubSeq(s, i, i + Len(old) - 1) = old

RECURSIVE ReplaceFrom(_, _, _, _)
\* s[i-1:].replace(old, new): the text up to the next occurrence of old, new
\* in its place, and the same from the end of that occurrence
ReplaceFrom(s, i, old, new) ==
    LET hits == {j \in i..Len(s) : StartsWithAt(s, j, old)}
    IN IF hits = {} THEN SubSeq(s, i, Len(s))
       ELSE LET hit == CHOOSE j \in hits : \A m \in hits : j <= m
            IN SubSeq(s, i, hit - 1) \o new \o ReplaceFrom(s, hit + Len(old), old, new)

\* str.replace(old, new) for a non-empty old: leftmost, non-overlapping
replace(s, old, new) == ReplaceFrom(s, 1, old, new)

RECURSIVE lstrip(_)
lstrip(s) == IF Len(s) > 0 /\ s[1] = " " THEN lstrip(Tail(s)) ELSE s

RECURSIVE rstrip(_)
rstrip(s) == IF Len(s) > 0 /\ s[Len(s)] = " "
             THEN rstrip(SubSeq(s, 1, Len(s) - 1)) ELSE s

\* str.strip()
strip(s) == rstrip(lstrip(s))

\* a missing value of a text column (pandas NaN)
NaNText == <<"nan">>

(***************************************************************************)
(* standardize_county_name                                                 *)
(***************************************************************************)
\* the dict of fixes, in insertion order
replacements ==
    <<
       <<<<"K", "o", "s", "c", "l", "u", "s", "k", "o">>,
         <<"K", "o", "s", "c", "i", "u", "s", "k", "o">>>>,
       <<<<"D", "e", "l", "e", "w", "a", "r", "e">>,
         <<"D", "e", "l", "a", "w", "a", "r", "e">>>>,
       <<<<"D", "a", "v", "l", "e", "s", "s">>,
         <<"D", "a", "v", "i", "e", "s", "s">>>>,
       <<<<"D", "u", "b", "o", "l", "s">>,
         <<"D", "u", "b", "o", "i", "s">>>>,
       <<<<"M", "a", "r", "l", "o", "n">>,
         <<"M", "a", "r", "i", "o", "n">>>>,
       <<<<"D", "u", "p", "a", "g", "e">>,
         <<"D", "u", "P", "a", "g", "e">>>>,
       <<<<"D", "e", " ", "W", "i", "t", "t">>,
         <<"D", "e", "W", "i", "t", "t">>>>,
       <<<<"S", "a", "n", " ", "B", "e", "r", "n", "a", "d", "i", "n", "o">>,
         <<"S", "a", "n", " ", "B", "e", "r", "n", "a", "r", "d", "i", "n", "o">>>>,
       <<<<"C", "h", "a", "u", "t", "a", "u", "g", "u", "a">>,
         <<"C", "h", "a", "u", "t", "a", "u", "q", "u", "a">>>>,
       <<<<"T", "r", "a", "i", "l">>,
         <<"T", "r", "a", "i", "l", "l">>>>,
       <<<<"T", "r", "a", "i", "l", "l", "l">>,
         <<"T", "r", "a", "i", "l", "l">>>>,
       <<<<"V", "e", "r", "m", "i", "l", "l", "i", "o", "n">>,
         <<"V", "e", "r", "m", "i", "l", "i", "o", "n">>>>,
       <<<<"C", "u", "l", "b", "e", "r", "t", "s", "o", "n">>,
         <<"C", "u", "l", "b", "e", "r", "s", "o", "n">>>>,
       <<<<"O", "c", "h", "i", "t", "t", "r", "e", "e">>,
         <<"O", "c", "h", "i", "l", "t", "r", "e", "e">>>>,
       <<<<"W", "h", "e", "i", "l", "e", "r">>,
         <<"W", "h", "e", "e", "l", "e", "r">>>>,
       <<<<"L", "a", "F", "a", "y", "e", "t", "t", "e">>,
         <<"L", "a", "f", "a", "y", "e", "t", "t", "e">>>>,
       <<<<"H", "e", "r", "a", "l", "s", "o", "n">>,
         <<"H", "a", "r", "a", "l", "s", "o", "n">>>>,
       <<<<"D", "e", "K", "a", "l", "b">>,
         <<"D", "e", " ", "K", "a", "l", "b">>>>,
       <<<<"D", "e", "s", "o", "t", "o">>,
         <<"D", "e", "S", "o", "t", "o">>>>,
       <<<<"L", "a", "c", " ", "Q", "u", "i", " ", "P", "a", "r", "l", "e">>,
         <<"L", "a", "c", " ", "q", "u", "i", " ", "P", "a", "r", "l", "e">>>>,
       <<<<"L", "a", "c", " ", "q", "u", "i", " ", "P", "a", "r", "l", "e">>,
         <<"L", "a", "c", " ", "q", "u", "i", " ", "P", "a", "r", "l", "e">>>>,
       <<<<"G", "a", "l", "i", "a">>,
         <<"G", "a", "l", "l", "i", "a">>>>,
       <<<<"M", "c", " ", "C", "o", "o", "k">>,
         <<"M", "c", "C", "o", "o", "k">>>>,
       <<<<"B", "o", "n", "n", " ", "H", "o", "m", "m", "e">>,
         <<"B", "o", "n", " ", "H", "o", "m", "m", "e">>>>,
       <<<<"D", "e", "B", "a", "c", "a">>,
         <<"D", "e", " ", "B", "a", "c", "a">>>>,
       <<<<"S", "a", "i", "n", "t">>,
         <<"S", "t", ".">>>>,
       <<<<"S", "t", " ">>,
         <<"S", "t", ".", " ">>>>
    >>

RECURSIVE ApplyReplacements(_, _)
\* for old, new in replacements.items(): county = county.replace(old, new)
\* from the k-th item on; no item changes an empty name
ApplyReplacements(county, k) ==
    IF k > Len(replacements) \/ county = <<>> THEN county
    ELSE ApplyReplacements(
             replace(county, replacements[k][1], replacements[k][2]), k + 1)

RemoveSuffixWords_None(county) == county

RemoveSuffixWords(county) ==
    replace(
      replace(
        replace(
          replace(county, <<" ", "C", "o", "u", "n", "t", "y">>, <<>>),
          <<" ", "c", "i", "t", "y">>, <<" ", "C", "i", "t", "y">>),
        <<" ", "P", "a", "r", "i", "s", "h">>, <<>>),
      <<"<", "/", "p", ">">>, <<>>)

standardize_county_name(county) ==
    IF county = NaNText THEN county
    ELSE strip(ApplyReplacements(RemoveSuffixWords(strip(county)), 1))

(***************************************************************************)
(* Rating-Area Resolver: merge_rating_areas of mergeLA9.py and of          *)
(* merge6boston.py.                                                        *)
(***************************************************************************)
VARIABLES
    variant,          \* which script's merge_rating_areas runs
    zip_county_df,    \* county-reference records (the argument)
    areas_df,         \* rating-area rules (the argument, then the standardized copy)
    result,           \* the result DataFrame, one record per row
    iter_frame,       \* the frame the running iterrows() loop walks
    ri,               \* position of that loop in iter_frame
    zip3_mapping,     \* dict (STATE, ZIP3) -> AREA
    county_mapping,   \* dict (STATE, county) -> AREA
    unmatched_csv,    \* the unmatched report file, NoReport while not written
    rpc               \* position in merge_rating_areas

resolverVars == <<variant, zip_county_df, areas_df, result, iter_frame, ri,
                  zip3_mapping, county_mapping, unmatched_csv, rpc>>

\* np.nan in the rating_area column
NaN == "nan"

LosAngelesCounty == <<"L", "o", "s", " ", "A", "n", "g", "e", "l", "e", "s", " ", "C", "o", "u", "n", "t", "y">>

LosAngeles == <<"L", "o", "s", " ", "A", "n", "g", "e", "l", "e", "s">>

SuffolkCounty == <<"S", "u", "f", "f", "o", "l", "k", " ", "C", "o", "u", "n", "t", "y">>

Suffolk == <<"S", "u", "f", "f", "o", "l", "k">>

Guam == <<"G", "u", "a", "m">>

HampdenCounty == <<"H", "a", "m", "p", "d", "e", "n", " ", "C", "o", "u", "n", "t", "y">>

SaipanMunicipality == <<"S", "a", "i", "p", "a", "n", " ", "M", "u", "n", "i", "c", "i", "p", "a", "l", "i", "t", "y">>

\* county-reference records the inputs are drawn from
RecordPool ==
    { [ZIP |-> 90001, COUNTYNAME |-> LosAngelesCounty, STATE_ |-> "CA", CLASSFP |-> "H4"],
      [ZIP |-> 90601, COUNTYNAME |-> LosAngelesCounty, STATE_ |-> "CA", CLASSFP |-> "H1"],
      [ZIP |-> 2109,  COUNTYNAME |-> SuffolkCounty,    STATE_ |-> "MA", CLASSFP |-> "H1"],
      [ZIP |-> 1001,  COUNTYNAME |-> HampdenCounty,    STATE_ |-> "MA", CLASSFP |-> "H1"],
      [ZIP |-> 96910, COUNTYNAME |-> Guam,             STATE_ |-> "GU", CLASSFP |-> "H1"],
      [ZIP |-> 96950, COUNTYNAME |-> SaipanMunicipality, STATE_ |-> "MP", CLASSFP |-> "H1"] }

\* rating-area rules the inputs are drawn from
RulePool ==
    { [STATE_ |-> "CA", AREA |-> "15", COUNTY_ZIP3 |-> <<"9", "0", "0">>],
      [STATE_ |-> "CA", AREA |-> "16", COUNTY_ZIP3 |-> LosAngeles],
      [STATE_ |-> "MA", AREA |-> "5",  COUNTY_ZIP3 |-> <<"0", "2", "1">>],
      [STATE_ |-> "MA", AREA |-> "6",  COUNTY_ZIP3 |-> <<"0", "2", "1">>],
      [STATE_ |-> "MA", AREA |-> "4",  COUNTY_ZIP3 |-> SuffolkCounty],
      [STATE_ |-> "GU", AREA |-> "7",  COUNTY_ZIP3 |-> <<"9", "6", "9">>] }

SeqsUpTo(S, n) == UNION {[1..k -> S] : k \in 0..n}

\* standardize_county_name on the names that occur in the pools, computed once
PoolNames == {r.COUNTYNAME : r \in RecordPool} \cup {a.COUNTY_ZIP3 : a \in RulePool}

StandardizedPoolNames == [name \in PoolNames |-> standardize_county_name(name)]

Standardize(name) ==
    IF name \in PoolNames THEN StandardizedPoolNames[name]
    ELSE standardize_county_name(name)

\* the rows of a frame that satisfy keep, in order
RECURSIVE SelectRows(_, _)
SelectRows(frame, keepIdx) ==
    IF frame = <<>> THEN <<>>
    ELSE IF Head(frame).idx \in keepIdx
         THEN <<Head(frame)>> \o SelectRows(Tail(frame), keepIdx)
         ELSE SelectRows(Tail(frame), keepIdx)

\* result.at[idx, 'rating_area'] = value
SetRatingArea(frame, idx, value) ==
    [k \in DOMAIN frame |->
        IF frame[k].idx = idx THEN [frame[k] EXCEPT !.rating_area = value]
        ELSE frame[k]]

\* areas_df['COUNTY_ZIP3'].apply(standardize_county_name)
StandardizeAreas(areas) ==
    [i \in DOMAIN areas |->
        [areas[i] EXCEPT !.COUNTY_ZIP3 = Standardize(@)]]

Max(S) == CHOOSE x \in S : \A y \in S : y <= x

\* the dict if the first row of a key were kept
MappingOf_FirstWins(areas, rows) ==
    [key \in {<<areas[i].STATE_, areas[i].COUNTY_ZIP3>> : i \in rows} |->
        areas[CHOOSE i \in rows :
                 /\ <<areas[i].STATE_, areas[i].COUNTY_ZIP3>> = key
                 /\ \A j \in rows :
                       <<areas[j].STATE_, areas[j].COUNTY_ZIP3>> = key => i <= j].AREA]

\* a dict filled by iterating the rules in order: a later row overwrites
MappingOf(areas, rows) ==
    [key \in {<<areas[i].STATE_, areas[i].COUNTY_ZIP3>> : i \in rows} |->
        areas[Max({i \in rows : <<areas[i].STATE_, areas[i].COUNTY_ZIP3>> = key})].AREA]

BuildZip3Mapping(areas) ==
    MappingOf(areas, {i \in DOMAIN areas : isdigit(areas[i].COUNTY_ZIP3)})

BuildCountyMapping(areas) ==
    MappingOf(areas, {i \in DOMAIN areas : ~isdigit(areas[i].COUNTY_ZIP3)})

territories == {"GU", "VI", "PR", "AS", "MP"}

LA15 == {str(n) : n \in {906, 907, 908, 910, 911, 912, 915, 917, 918, 935}}

LA16 == {str(n) : n \in {900, 902, 903, 904, 905, 913, 914, 916, 923, 928, 932}}

\* the row of result built from input record i
ResultRow(df, i, county, rating) ==
    [idx |-> i,
     zip_code |-> zfill(str(df[i].ZIP), 5),
     county_standardized |-> county,
     county_original |-> df[i].COUNTYNAME,
     state |-> df[i].STATE_,
     classfp |-> df[i].CLASSFP,
     ZIP3 |-> Prefix(zfill(str(df[i].ZIP), 5), 3),
     rating_area |-> rating]

\* mergeLA9.py lines 103-106: territories all get rating area 1
TerritoryDefault_Omitted(state) == NaN

TerritoryDefault(state) == IF state \in territories THEN "1" ELSE NaN

\* merge6boston.py line 135: result['rating_area'].isna()
unmatched_mask_All(frame) == {frame[k].idx : k \in DOMAIN frame}

unmatched_mask(frame) ==
    {frame[k].idx : k \in {j \in DOMAIN frame : frame[j].rating_area = NaN}}

LoopPc(frame, i, loopPc, exitPc) == IF i <= Len(frame) THEN loopPc ELSE exitPc

(***************************************************************************)
(* Quote Extractor and Batch Runners: state.                               *)
(***************************************************************************)
VARIABLES
    script,           \* which script runs: app, app2, run_scraper_2026, scraper_v2
    df,               \* the request list (rows of the input CSV)
    idx,              \* position of the batch loop in df
    bpc,              \* position of the Batch Runner
    results,          \* the list `results` of the Batch Runner
    results_df,       \* the DataFrame `results_df` (Unbound before its first assignment)
    existing_zips,    \* scraper_v2: ZIPs of the results file loaded at the start
    output_file,      \* the persisted results file (NoFile while it does not exist)
    retry_count,      \* app2: retries of the current ZIP
    cost,             \* app2: cost of the last attempt
    run,              \* number of the current run of the script on df
    call,             \* arguments of the Extractor invocation in progress
    epc,              \* position of scrape_kff_calculator
    browser_open,     \* a launched browser that has not been closed
    playwright,       \* inside `with sync_playwright() as p`
    fault,            \* what went wrong on the page in the current invocation
    ret,              \* how the last invocation ended: returned value or raised
    outcome,          \* per request: page fault and result of its last invocation
    attempts,         \* per request: Extractor invocations made for it in this run
    slept,            \* the time.sleep calls since the last invocation ended
    summary           \* the counts the script reports when the batch is over

scrapeVars == <<script, df, idx, bpc, results, results_df, existing_zips,
                output_file, retry_count, cost, run, call, epc, browser_open,
                playwright, fault, ret, outcome, attempts, slept, summary>>

(***************************************************************************)
(* The data-preparation scripts (ZIP selection, cost broadcast, parameter  *)
(* file update) and the pure helpers: state.                               *)
(***************************************************************************)
VARIABLES
    tool,             \* which script or helper runs
    tin,              \* its input
    tout,             \* its output
    tpc               \* its position

toolVars == <<tool, tin, tout, tpc>>

vars == <<resolverVars, scrapeVars, toolVars>>

(***************************************************************************)
(* Python values of the result rows. A str is a sequence of characters, an *)
(* int n is <<"int", n>>, a float with integral value n is <<"float", n>>. *)
(***************************************************************************)
PyInt(n) == <<"int", n>>

PyFloat(n) == <<"float", n>>

IsPyInt(v) == Len(v) = 2 /\ v[1] = "int"

IsPyFloat(v) == Len(v) = 2 /\ v[1] = "float"

ERROR == <<"E", "R", "R", "O", "R">>

NA == <<"N", "/", "A">>

NoState == "NaN"

NoFile == <<[missing |-> "file"]>>

Unbound == <<[missing |-> "name"]>>

NoCall == [state |-> NoState, zip_code |-> <<>>, req |-> 0]

NoRet == [kind |-> "none", value |-> <<>>]

NotCalled == [fault |-> "not_called", ret |-> NoRet]

\* str.upper() on a state code
Upper(st) ==
    CASE st = "ky" -> "KY"
      [] st = "ca" -> "CA"
      [] st = "vt" -> "VT"
      [] OTHER -> st

(***************************************************************************)
(* The results file: pandas read_csv and to_csv on its columns.            *)
(***************************************************************************)
\* a cell read_csv takes for a missing value (default na_values)
IsNACell(cell) == cell \in {<<>>, NA, <<"N", "A">>, <<"N", "a", "N">>, <<"n", "a", "n">>}

\* text of a float with integral value, as to_csv writes it: digits ".0"
IsFloatCell(cell) ==
    /\ Len(cell) >= 3
    /\ SubSeq(cell, Len(cell) - 1, Len(cell)) = <<".", "0">>
    /\ isdigit(SubSeq(cell, 1, Len(cell) - 2))

FloatCellValue(cell) == int(SubSeq(cell, 1, Len(cell) - 2))

\* dtype read_csv infers for a column from its cells
ColumnKind(cells) ==
    IF \A c \in cells : isdigit(c) THEN "int64"
    ELSE IF \A c \in cells : isdigit(c) \/ IsFloatCell(c) \/ IsNACell(c) THEN "float64"
    ELSE "object"

ParseCell(kind, cell) ==
    IF IsNACell(cell) THEN NaNText
    ELSE IF kind = "int64" THEN PyInt(int(cell))
    ELSE IF kind = "float64"
         THEN PyFloat(IF IsFloatCell(cell) THEN FloatCellValue(cell) ELSE int(cell))
    ELSE cell

\* pd.read_csv(output_file)
read_csv(rows) ==
    LET zipKind == ColumnKind({rows[k].Zip : k \in DOMAIN rows})
        costKind == ColumnKind({rows[k].Cost : k \in DOMAIN rows})
    IN [k \in DOMAIN rows |->
           [rows[k] EXCEPT !.Zip = ParseCell(zipKind, @),
                           !.Cost = ParseCell(costKind, @)]]

\* the text to_csv writes for a value
CellText(v) ==
    IF v = NaNText THEN <<>>
    ELSE IF IsPyInt(v) THEN str(v[2])
    ELSE IF IsPyFloat(v) THEN str(v[2]) \o <<".", "0">>
    ELSE v

\* frame.to_csv(output_file, index=False)
to_csv(frame) ==
    [k \in DOMAIN frame |->
        [frame[k] EXCEPT !.Zip = CellText(@), !.Cost = CellText(@)]]

(***************************************************************************)
(* merge_rating_areas: the steps.                                          *)
(***************************************************************************)
\* mergeLA9.py lines 87-126: result frame, territory default, the
\* standardized copy of the non-territory records, the two mappings
LA9Prepare ==
    /\ rpc = "start"
    /\ variant = "mergeLA9"
    /\ LET all == [i \in DOMAIN zip_county_df |->
                      ResultRow(zip_county_df, i, zip_county_df[i].COUNTYNAME,
                                TerritoryDefault(zip_county_df[i].STATE_))]
           nonTerritory == SelectRows(all, {all[k].idx : k \in {j \in DOMAIN all : all[j].state \notin territories}})
           areas == StandardizeAreas(areas_df)
       IN /\ result' = all
          /\ iter_frame' = [k \in DOMAIN nonTerritory |->
                               [nonTerritory[k] EXCEPT !.county_standardized = Standardize(@)]]
          /\ areas_df' = areas
          /\ zip3_mapping' = BuildZip3Mapping(areas)
          /\ county_mapping' = BuildCountyMapping(areas)
          /\ ri' = 1
          /\ rpc' = LoopPc(nonTerritory, 1, "override", "report")
    /\ UNCHANGED <<variant, zip_county_df, unmatched_csv,
                   scrapeVars, toolVars>>

\* mergeLA9.py lines 130-136: the Los Angeles ZIP3 lists
LA9OverrideStep(row) ==
    IF row.state = "CA" /\ row.ZIP3 \in LA15
    THEN /\ result' = SetRatingArea(result, row.idx, "15")
         /\ rpc' = "zip3"
         /\ ri' = ri
    ELSE IF row.state = "CA" /\ row.ZIP3 \in LA16
    THEN /\ result' = SetRatingArea(result, row.idx, "16")
         /\ ri' = ri + 1
         /\ rpc' = LoopPc(iter_frame, ri + 1, "override", "report")
    ELSE /\ result' = result
         /\ rpc' = "zip3"
         /\ ri' = ri

LA9Override ==
    /\ rpc = "override"
    /\ LA9OverrideStep(iter_frame[ri])
    /\ UNCHANGED <<variant, zip_county_df, areas_df, iter_frame, zip3_mapping,
                   county_mapping, unmatched_csv,
                   scrapeVars, toolVars>>

\* mergeLA9.py lines 138-142
LA9Zip3 ==
    /\ rpc = "zip3"
    /\ LET row == iter_frame[ri]
           key == <<row.state, row.ZIP3>>
       IN IF key \in DOMAIN zip3_mapping
          THEN /\ result' = SetRatingArea(result, row.idx, zip3_mapping[key])
               /\ ri' = ri + 1
               /\ rpc' = LoopPc(iter_frame, ri + 1, "override", "report")
          ELSE /\ rpc' = "county"
               /\ UNCHANGED <<result, ri>>
    /\ UNCHANGED <<variant, zip_county_df, areas_df, iter_frame, zip3_mapping,
                   county_mapping, unmatched_csv,
                   scrapeVars, toolVars>>

\* mergeLA9.py lines 144-147
LA9County ==
    /\ rpc = "county"
    /\ LET row == iter_frame[ri]
           key == <<row.state, row.county_standardized>>
       IN /\ result' = IF key \in DOMAIN county_mapping
                       THEN SetRatingArea(result, row.idx, county_mapping[key])
                       ELSE result
          /\ ri' = ri + 1
          /\ rpc' = LoopPc(iter_frame, ri + 1, "override", "report")
    /\ UNCHANGED <<variant, zip_county_df, areas_df, iter_frame, zip3_mapping,
                   county_mapping, unmatched_csv,
                   scrapeVars, toolVars>>

\* the rows of class H4 are kept
B6Kept_KeepH4(rec) == rec.STATE_ \notin {"GU", "VI", "PR"}

\* merge6boston.py lines 91-93 and 112: the records the script keeps
B6Kept(rec) ==
    /\ rec.STATE_ \notin {"GU", "VI", "PR"}
    /\ rec.CLASSFP # "H4"
    /\ rec.STATE_ # "PR"

\* merge6boston.py lines 87-124
B6Prepare ==
    /\ rpc = "start"
    /\ variant = "merge6boston"
    /\ LET all == [i \in DOMAIN zip_county_df |->
                      ResultRow(zip_county_df, i,
                                Standardize(zip_county_df[i].COUNTYNAME),
                                NaN)]
           kept == SelectRows(all, {i \in DOMAIN zip_county_df : B6Kept(zip_county_df[i])})
           areas == StandardizeAreas(areas_df)
       IN /\ result' = kept
          /\ iter_frame' = kept
          /\ areas_df' = areas
          /\ zip3_mapping' = BuildZip3Mapping(areas)
          /\ county_mapping' = BuildCountyMapping(areas)
          /\ ri' = 1
          /\ rpc' = LoopPc(kept, 1, "zip3pass", "countymask")
    /\ UNCHANGED <<variant, zip_county_df, unmatched_csv,
                   scrapeVars, toolVars>>

\* merge6boston.py lines 128-131: one iteration of the ZIP3 pass
B6Zip3Pass ==
    /\ rpc = "zip3pass"
    /\ LET row == iter_frame[ri]
           key == <<row.state, row.ZIP3>>
       IN result' = IF key \in DOMAIN zip3_mapping
                    THEN SetRatingArea(result, row.idx, zip3_mapping[key])
                    ELSE result
    /\ ri' = ri + 1
    /\ rpc' = LoopPc(iter_frame, ri + 1, "zip3pass", "countymask")
    /\ UNCHANGED <<variant, zip_county_df, areas_df, iter_frame, zip3_mapping,
                   county_mapping, unmatched_csv,
                   scrapeVars, toolVars>>

\* merge6boston.py lines 135-136: the rows still unmatched after the ZIP3 pass
B6CountyMask ==
    /\ rpc = "countymask"
    /\ LET unmatched == SelectRows(result, unmatched_mask(result))
       IN /\ iter_frame' = unmatched
          /\ rpc' = LoopPc(unmatched, 1, "countypass", "report")
    /\ ri' = 1
    /\ UNCHANGED <<variant, zip_county_df, areas_df, result, zip3_mapping,
                   county_mapping, unmatched_csv,
                   scrapeVars, toolVars>>

\* merge6boston.py lines 136-139: one iteration of the county pass
B6CountyPass ==
    /\ rpc = "countypass"
    /\ LET row == iter_frame[ri]
           key == <<row.state, row.county_standardized>>
       IN result' = IF key \in DOMAIN county_mapping
                    THEN SetRatingArea(result, row.idx, county_mapping[key])
                    ELSE result
    /\ ri' = ri + 1
    /\ rpc' = LoopPc(iter_frame, ri + 1, "countypass", "report")
    /\ UNCHANGED <<variant, zip_county_df, areas_df, iter_frame, zip3_mapping,
                   county_mapping, unmatched_csv,
                   scrapeVars, toolVars>>

\* ---- the unmatched report ----
\* no unmatched_records file has been written
NoReport == <<[missing |-> "report"]>>

\* the characters of code 32 to 122, in the order of their codes (the quote,
\* the backslash and the backtick by their names)
Ascii ==
    <<
       " ", "!", "quote", "#", "$", "%", "&", "'", "(", ")", "*", "+", ",",
       "-", ".", "/", "0", "1", "2", "3", "4", "5", "6", "7", "8", "9",
       ":", ";", "<", "=", ">", "?", "@", "A", "B", "C", "D", "E", "F",
       "G", "H", "I", "J", "K", "L", "M", "N", "O", "P", "Q", "R", "S",
       "T", "U", "V", "W", "X", "Y", "Z", "[", "backslash", "]", "^", "_", "backtick",
       "a", "b", "c", "d", "e", "f", "g", "h", "i", "j", "k", "l", "m",
       "n", "o", "p", "q", "r", "s", "t", "u", "v", "w", "x", "y", "z"
    >>

\* ord(c) of a character of Ascii
ord(c) == 31 + CHOOSE i \in DOMAIN Ascii : Ascii[i] = c

\* a < b for str: the first differing character decides, a proper prefix is
\* smaller
StrLess(a, b) ==
    \E i \in 1..(Len(a) + 1) :
        /\ i <= Len(b)
        /\ SubSeq(a, 1, i - 1) = SubSeq(b, 1, i - 1)
        /\ (i <= Len(a) => ord(a[i]) < ord(b[i]))

\* the characters of a state code of the records
StateText(st) ==
    CASE st = "CA" -> <<"C", "A">>
      [] st = "MA" -> <<"M", "A">>
      [] st = "GU" -> <<"G", "U">>
      [] st = "MP" -> <<"M", "P">>

\* the sort key of a row: state, county_original, zip_code
SortKey(row) == <<StateText(row.state), row.county_original, row.zip_code>>

\* k1 < k2 for the keys of two rows, column by column
KeyLess(k1, k2) ==
    \E c \in 1..3 :
        /\ \A d \in 1..(c - 1) : k1[d] = k2[d]
        /\ StrLess(k1[c], k2[c])

\* the rows in the order of their index, whatever their keys
sort_values_Unsorted(frame) == frame

\* mergeLA9.py line 167: unmatched.sort_values([...]), rows of equal keys in
\* the order they had
sort_values(frame) ==
    LET before(j, k) == \/ KeyLess(SortKey(frame[j]), SortKey(frame[k]))
                        \/ SortKey(frame[j]) = SortKey(frame[k]) /\ j < k
        pos(k) == 1 + Cardinality({j \in DOMAIN frame : before(j, k)})
    IN [n \in DOMAIN frame |-> frame[CHOOSE k \in DOMAIN frame : pos(k) = n]]

\* sorted(set(x)) of a set of names
sorted(names) ==
    LET pos(a) == 1 + Cardinality({b \in names : StrLess(b, a)})
    IN [n \in 1..Cardinality(names) |-> CHOOSE a \in names : pos(a) = n]

RECURSIVE join(_, _)
\* sep.join(list)
join(sep, list) ==
    IF list = <<>> THEN <<>>
    ELSE IF Len(list) = 1 THEN list[1]
    ELSE list[1] \o sep \o join(sep, Tail(list))

\* mergeLA9.py lines 170-176: for the state of a row, the county names of the
\* rules of the state that are not ZIP3 rules, NaN when it has none
available_counties(areas, state) ==
    LET names == {areas[i].COUNTY_ZIP3 :
                     i \in {j \in DOMAIN areas :
                               /\ ~isdigit(areas[j].COUNTY_ZIP3)
                               /\ areas[j].STATE_ = state}}
    IN IF names = {} THEN NaNText
       ELSE join(<<",", " ">>, sorted(names))

\* mergeLA9.py lines 158-190 (merge6boston.py lines 159-190): the rows of the
\* report, none written when no row is unmatched
UnmatchedReport(frame, areas) ==
    LET unmatched == SelectRows(frame, unmatched_mask(frame))
        unmatched_sorted == sort_values(unmatched)
    IN IF unmatched = <<>> THEN NoReport
       ELSE [k \in DOMAIN unmatched_sorted |->
                [idx |-> unmatched_sorted[k].idx,
                 state |-> unmatched_sorted[k].state,
                 county_original |-> unmatched_sorted[k].county_original,
                 county_standardized |-> unmatched_sorted[k].county_standardized,
                 zip_code |-> unmatched_sorted[k].zip_code,
                 classfp |-> unmatched_sorted[k].classfp,
                 available_counties |->
                     available_counties(areas, unmatched_sorted[k].state)]]

\* mergeLA9.py lines 149-196 (merge6boston.py lines 141-197): the match
\* report, the unmatched report, and the function returns result
ResolverReport ==
    /\ rpc = "report"
    /\ unmatched_csv' = UnmatchedReport(result, areas_df)
    /\ rpc' = "done"
    /\ UNCHANGED <<variant, zip_county_df, areas_df, result, iter_frame, ri,
                   zip3_mapping, county_mapping, scrapeVars, toolVars>>

ToolIdle ==
    /\ tool = "none"
    /\ tin = <<>>
    /\ tout = <<>>
    /\ tpc = "off"

ScrapeIdle ==
    /\ script = "none"
    /\ df = <<>>
    /\ idx = 0
    /\ bpc = "off"
    /\ results = <<>>
    /\ results_df = Unbound
    /\ existing_zips = {}
    /\ output_file = NoFile
    /\ retry_count = 0
    /\ cost = PyInt(0)
    /\ run = 0
    /\ call = NoCall
    /\ epc = "idle"
    /\ browser_open = FALSE
    /\ playwright = FALSE
    /\ fault = "none"
    /\ ret = NoRet
    /\ outcome = <<>>
    /\ attempts = <<>>
    /\ slept = <<>>
    /\ summary = {}

InitResolver ==
    /\ variant \in {"mergeLA9", "merge6boston"}
    /\ zip_county_df \in SeqsUpTo(RecordPool, MaxRecords)
    /\ areas_df \in SeqsUpTo(RulePool, MaxRules)
    /\ result = <<>>
    /\ iter_frame = <<>>
    /\ ri = 0
    /\ zip3_mapping = <<>>
    /\ county_mapping = <<>>
    /\ unmatched_csv = NoReport
    /\ rpc = "start"
    /\ ScrapeIdle
    /\ ToolIdle

NextResolver ==
    \/ LA9Prepare
    \/ LA9Override
    \/ LA9Zip3
    \/ LA9County
    \/ B6Prepare
    \/ B6Zip3Pass
    \/ B6CountyMask
    \/ B6CountyPass
    \/ ResolverReport

SpecResolver == InitResolver /\ [][NextResolver]_vars

(***************************************************************************)
(* Claims about the Resolver.                                              *)
(***************************************************************************)
\* first three digits of the zero-padded ZIP of an input record
Zip3Of(rec) == Prefix(zfill(str(rec.ZIP), 5), 3)

\* rows of the rule table with this state and this match key
RuleRows(state, key) ==
    {i \in DOMAIN areas_df : areas_df[i].STATE_ = state /\ areas_df[i].COUNTY_ZIP3 = key}

\* the area the rule table gives for (state, key): its last such row, NaN if none
RuleArea(state, key) ==
    IF RuleRows(state, key) = {} THEN NaN
    ELSE areas_df[Max(RuleRows(state, key))].AREA

\* the rows of the returned mapping that come from input record i
RowsOf(i) == {k \in DOMAIN result : result[k].idx = i}

\* a Los Angeles special case applies to the record
OverrideApplies(rec) ==
    /\ variant = "mergeLA9"
    /\ rec.STATE_ = "CA"
    /\ Zip3Of(rec) \in LA15 \cup LA16

\* C1: when merge_rating_areas has returned, every non-territory record that no
\* special case covers and whose (state, ZIP3) is a key of the ZIP3 rules has
\* the area of that ZIP3 rule, also when a county rule for (state, normalized
\* county) gives another area.
C1_Zip3Priority ==
    rpc = "done" =>
        \A k \in DOMAIN result :
            LET rec == zip_county_df[result[k].idx] IN
            ( /\ rec.STATE_ \notin territories
              /\ ~OverrideApplies(rec)
              /\ RuleRows(rec.STATE_, Zip3Of(rec)) # {} )
            => result[k].rating_area = RuleArea(rec.STATE_, Zip3Of(rec))

\* a returned mapping has a record with a ZIP3 rule and a county rule of
\* different areas, resolved to the ZIP3 rule's area
C1_Witness ==
    /\ rpc = "done"
    /\ \E k \in DOMAIN result :
          LET rec == zip_county_df[result[k].idx] IN
          /\ rec.STATE_ \notin territories
          /\ ~OverrideApplies(rec)
          /\ RuleRows(rec.STATE_, Zip3Of(rec)) # {}
          /\ RuleRows(rec.STATE_, standardize_county_name(rec.COUNTYNAME)) # {}
          /\ RuleArea(rec.STATE_, Zip3Of(rec))
                 # RuleArea(rec.STATE_, standardize_county_name(rec.COUNTYNAME))
          /\ result[k].rating_area = RuleArea(rec.STATE_, Zip3Of(rec))

\* C2 as stated: when merge_rating_areas has returned, every input record of a
\* territory (GU, VI, PR, AS, MP) has rating_area "1" in the mapping.
C2_TerritoryDefaultAsStated ==
    rpc = "done" =>
        \A i \in DOMAIN zip_county_df :
            zip_county_df[i].STATE_ \in territories
            => /\ RowsOf(i) # {}
               /\ \A k \in RowsOf(i) : result[k].rating_area = "1"

\* the area the two ordinary passes give a record: the ZIP3 rule, else the
\* county rule, else none
OrdinaryArea(rec) ==
    IF RuleArea(rec.STATE_, Zip3Of(rec)) # NaN THEN RuleArea(rec.STATE_, Zip3Of(rec))
    ELSE RuleArea(rec.STATE_, standardize_county_name(rec.COUNTYNAME))

\* C2 amended: in mergeLA9 every territory record has exactly one row and
\* its rating_area is "1" whatever the rules; merge6boston returns no row for
\* a GU, VI or PR record and resolves an AS or MP record by the ordinary passes.
C2_TerritoryDefault ==
    rpc = "done" =>
        \A i \in DOMAIN zip_county_df :
            LET rec == zip_county_df[i] IN
            rec.STATE_ \in territories =>
                /\ variant = "mergeLA9" =>
                      /\ Cardinality(RowsOf(i)) = 1
                      /\ \A k \in RowsOf(i) : result[k].rating_area = "1"
                /\ variant = "merge6boston" =>
                      IF rec.STATE_ \in {"GU", "VI", "PR"} THEN RowsOf(i) = {}
                      ELSE \A k \in RowsOf(i) : result[k].rating_area = OrdinaryArea(rec)

\* mergeLA9 has returned "1" for a territory record although a ZIP3 rule of the
\* rule table matches the record with another area
C2_Witness ==
    /\ rpc = "done"
    /\ variant = "mergeLA9"
    /\ \E k \in DOMAIN result :
          LET rec == zip_county_df[result[k].idx] IN
          /\ rec.STATE_ \in territories
          /\ RuleArea(rec.STATE_, Zip3Of(rec)) \notin {NaN, "1"}
          /\ result[k].rating_area = "1"

\* C3: when mergeLA9's merge_rating_areas has returned, every CA record whose
\* ZIP3 is in the area-15 list has rating_area "15" and every CA record whose
\* ZIP3 is in the area-16 list has "16", whatever the rule table holds.
C3_LosAngelesOverride ==
    (rpc = "done" /\ variant = "mergeLA9") =>
        \A k \in DOMAIN result :
            LET rec == zip_county_df[result[k].idx] IN
            /\ (rec.STATE_ = "CA" /\ Zip3Of(rec) \in LA15) => result[k].rating_area = "15"
            /\ (rec.STATE_ = "CA" /\ Zip3Of(rec) \in LA16) => result[k].rating_area = "16"

(***************************************************************************)
(* Quote Extractor: scrape_kff_calculator of app.py, app2.py,              *)
(* run_scraper_2026.py and scraper_v2.py.                                  *)
(***************************************************************************)
MaxRequests == 2

MaxRuns == 2

\* app2.py line 112
max_retries == 3

NoMatch == <<"None">>

\* the results page shows no cost element
Missing == <<"missing">>

\* texts the cost element of the results page may show
CostTexts == { <<"$", "1", ",", "2", "3", "4">>,
               <<"$", "0">>,
               <<"-", "-">> }

RECURSIVE DigitRun(_, _)
\* number of consecutive digits of s from position i on
DigitRun(s, i) ==
    IF i <= Len(s) /\ s[i] \in DigitSet THEN 1 + DigitRun(s, i + 1) ELSE 0

Min(S) == CHOOSE x \in S : \A y \in S : x <= y

\* re.search(r"\$(\d+,?\d*)", text): group(1) of the leftmost match, or None
CostMatch(text) ==
    LET starts == {i \in 1..(Len(text) - 1) : text[i] = "$" /\ text[i + 1] \in DigitSet}
    IN IF starts = {} THEN NoMatch
       ELSE LET i == Min(starts) + 1
                j == i + DigitRun(text, i)
                comma == j <= Len(text) /\ text[j] = ","
                last == IF comma THEN j + DigitRun(text, j + 1) ELSE j - 1
            IN SubSeq(text, i, last)

Returns(v) == [kind |-> "return", value |-> v]

Raises == [kind |-> "raise", value |-> <<>>]

\* app.py lines 64-76: extract_unsubsidized_cost
ExtractApp(page) ==
    IF page = Missing THEN Returns(NA)
    ELSE IF CostMatch(page) # NoMatch THEN Returns(CostMatch(page))
    ELSE Returns(NA)

\* app2.py lines 74-101
ExtractApp2(page) ==
    IF page = Missing THEN Raises
    ELSE IF CostMatch(page) # NoMatch /\ int(replace(CostMatch(page), <<",">>, <<>>)) > 0
         THEN Returns(PyInt(int(replace(CostMatch(page), <<",">>, <<>>))))
    ELSE Returns(PyInt(0))

\* run_scraper_2026.py lines 46-51
ExtractRun2026(page) ==
    IF page = Missing THEN Raises
    ELSE IF CostMatch(page) # NoMatch THEN Returns(CostMatch(page))
    ELSE Returns(NA)

\* scraper_v2.py lines 214-262, on a page whose only bold-blue span is the
\* cost element under the silver-plan heading
ExtractV2(page) ==
    IF page = Missing THEN Returns(NA)
    ELSE IF Len(page) > 0 /\ page[1] = "$"
         THEN Returns(replace(replace(page, <<"$">>, <<>>), <<",">>, <<>>))
    ELSE Returns(NA)

\* the extraction step of each script on the page the calculator shows
ExtractCost(scr, page) ==
    CASE scr = "app" -> ExtractApp(page)
      [] scr = "app2" -> ExtractApp2(page)
      [] scr = "run_scraper_2026" -> ExtractRun2026(page)
      [] scr = "scraper_v2" -> ExtractV2(page)

\* what the `except Exception` branch of each script ends with
ExceptResult(scr) ==
    CASE scr = "app" -> Raises
      [] scr = "app2" -> Returns(PyInt(0))
      [] scr = "run_scraper_2026" -> Returns(ERROR)
      [] scr = "scraper_v2" -> Returns(ERROR)

\* the except branch calls browser.close()
ExceptCloses_Forgotten == FALSE

ExceptCloses == TRUE

\* leaving `with sync_playwright()` stops the driver and with it its browsers
BrowserAfterPlaywrightStop_Leaks(open) == open

BrowserAfterPlaywrightStop(open) == FALSE

\* the page fault the extraction step meets
ExtractFault(page) ==
    IF page = Missing THEN "element_missing"
    ELSE IF CostMatch(page) = NoMatch THEN "pattern_absent"
    ELSE "none"

batchVars == <<script, df, idx, results, results_df, existing_zips, output_file,
               retry_count, cost, run>>

\* with sync_playwright() as p: browser = p.chromium.launch(...)
ExtLaunch ==
    /\ epc = "launch"
    /\ playwright' = TRUE
    /\ browser_open' = TRUE
    /\ epc' = "new_page"
    /\ UNCHANGED <<summary, slept, toolVars, resolverVars, batchVars, bpc, call, fault, ret, outcome, attempts>>

\* page = browser.new_page(); page.set_default_timeout(...): before the try
ExtNewPage ==
    /\ epc = "new_page"
    /\ \/ /\ epc' = "protocol"
          /\ UNCHANGED <<fault, ret>>
       \/ /\ fault' = "new_page"
          /\ ret' = Raises
          /\ epc' = "exit"
    /\ UNCHANGED <<summary, slept, toolVars, resolverVars, batchVars, bpc, call, browser_open, playwright,
                   outcome, attempts>>

\* inside the try: load the page, wait for the form, fill it, submit, wait for
\* the results; any step may time out or miss its element
ExtProtocol ==
    /\ epc = "protocol"
    /\ \/ /\ call.state # NoState
          /\ epc' = "extract"
          /\ UNCHANGED fault
       \/ /\ call.state # NoState
          /\ fault' = "interaction"
          /\ epc' = "except"
       \/ /\ call.state = NoState     \* state.lower() of a missing state raises
          /\ fault' = "state_nan"
          /\ epc' = "except"
    /\ UNCHANGED <<summary, slept, toolVars, resolverVars, batchVars, bpc, call, browser_open, playwright,
                   ret, outcome, attempts>>

\* inside the try: read the cost from the results page
ExtExtract ==
    /\ epc = "extract"
    /\ \E page \in CostTexts \cup {Missing} :
          /\ fault' = ExtractFault(page)
          /\ IF ExtractCost(script, page).kind = "return"
             THEN /\ ret' = ExtractCost(script, page)
                  /\ epc' = "return"
             ELSE /\ ret' = ret
                  /\ epc' = "except"
    /\ UNCHANGED <<summary, slept, toolVars, resolverVars, batchVars, bpc, call, browser_open, playwright,
                   outcome, attempts>>

\* end of the try: browser.close(); return
ExtReturn ==
    /\ epc = "return"
    /\ browser_open' = FALSE
    /\ epc' = "exit"
    /\ UNCHANGED <<summary, slept, toolVars, resolverVars, batchVars, bpc, call, playwright, fault, ret,
                   outcome, attempts>>

\* except Exception: log, browser.close(), then return the sentinel or re-raise
ExtExcept ==
    /\ epc = "except"
    /\ browser_open' = IF ExceptCloses THEN FALSE ELSE browser_open
    /\ ret' = ExceptResult(script)
    /\ epc' = "exit"
    /\ UNCHANGED <<summary, slept, toolVars, resolverVars, batchVars, bpc, call, playwright, fault,
                   outcome, attempts>>

\* the with block is left and the invocation ends, returning or raising
ExtExit ==
    /\ epc = "exit"
    /\ playwright' = FALSE
    /\ browser_open' = BrowserAfterPlaywrightStop(browser_open)
    /\ epc' = "idle"
    /\ bpc' = "returned"
    /\ outcome' = [outcome EXCEPT ![call.req] = [fault |-> fault, ret |-> ret]]
    /\ slept' = <<>>
    /\ UNCHANGED <<summary, toolVars, resolverVars, batchVars, call, fault, ret, attempts>>

(***************************************************************************)
(* Batch Runners.                                                          *)
(***************************************************************************)
\* rows of the input CSV the request lists are drawn from
RequestPool ==
    { [zip_code |-> 2108,  state |-> NoState],
      [zip_code |-> 42223, state |-> "ky"],
      [zip_code |-> 42223, state |-> "TN"],
      [zip_code |-> 99999, state |-> NoState] }

\* scraper_v2.py lines 281-283: ZIP -> state of merged_results_v9.csv
zip_to_state ==
    (zfill(str(2108), 5) :> "MA") @@ (zfill(str(42223), 5) :> "KY")

\* the state chosen in the sidebar of app.py and app2.py
SidebarState == "ca"

\* str(row['zip_code']).zfill(5)
ZipCode(row) == zfill(str(row.zip_code), 5)

\* the result row of request req; req and run (the run that wrote the row)
\* are not columns, they identify the row for the properties
ResultRowOf(state, zip_code, value, req) ==
    [State |-> state, Zip |-> zip_code, Cost |-> value, req |-> req, run |-> run]

\* time.sleep of lo to hi seconds (random.uniform(lo, hi), or a fixed time)
sleep(lo, hi) == Append(slept, <<lo, hi>>)

\* the Batch Runner calls scrape_kff_calculator(state, zip_code, age)
Invoke(state, zip_code, req) ==
    /\ call' = [state |-> state, zip_code |-> zip_code, req |-> req]
    /\ epc' = "launch"
    /\ bpc' = "awaiting"
    /\ fault' = "none"
    /\ ret' = NoRet
    /\ attempts' = [attempts EXCEPT ![req] = @ + 1]

extractorVars == <<call, epc, browser_open, playwright, fault, ret, outcome, attempts>>

\* ---- app.py: process_csv, lines 78-98 ----
AppStart ==
    /\ script = "app" /\ bpc = "start"
    /\ results' = <<>>
    /\ idx' = 1
    /\ bpc' = "loop"
    /\ UNCHANGED <<summary, slept, toolVars, resolverVars, script, df, results_df, existing_zips, output_file,
                   retry_count, cost, run, extractorVars>>

AppRow ==
    /\ script = "app" /\ bpc = "loop" /\ idx <= Len(df)
    /\ Invoke(SidebarState, ZipCode(df[idx]), idx)
    /\ UNCHANGED <<summary, slept, toolVars, resolverVars, batchVars, browser_open, playwright, outcome>>

\* result appended, or the exception shown with st.error
AppReturned ==
    /\ script = "app" /\ bpc = "returned"
    /\ results' = IF ret.kind = "return"
                  THEN Append(results, ResultRowOf(call.state, call.zip_code, ret.value, idx))
                  ELSE results
    /\ idx' = idx + 1
    /\ bpc' = "loop"
    /\ UNCHANGED <<summary, slept, toolVars, resolverVars, script, df, results_df, existing_zips, output_file,
                   retry_count, cost, run, extractorVars>>

AppFinish ==
    /\ script = "app" /\ bpc = "loop" /\ idx > Len(df)
    /\ results_df' = results
    /\ bpc' = "done"
    /\ UNCHANGED <<summary, slept, toolVars, resolverVars, script, df, idx, results, existing_zips, output_file,
                   retry_count, cost, run, extractorVars>>

\* ---- app2.py: process_csv, lines 108-171 ----
\* line 127: the condition of the retry loop
ShouldAttempt_OffByOne(retries, c) == retries <= max_retries /\ c = PyInt(0)

ShouldAttempt(retries, c) == retries < max_retries /\ c = PyInt(0)

\* line 141: the cost written to the row
RecordedCost(c) == IF c[2] > 0 THEN c ELSE PyInt(0)

\* line 144: results_df = pd.concat([results_df, new_row])
RecordRow_SkipFailed(frame, row) ==
    IF row.Cost = PyInt(0) THEN frame ELSE Append(frame, row)

RecordRow(frame, row) == Append(frame, row)

App2Start ==
    /\ script = "app2" /\ bpc = "start"
    /\ results' = <<>>
    /\ results_df' = <<>>
    /\ idx' = 1
    /\ bpc' = "loop"
    /\ UNCHANGED <<summary, slept, toolVars, resolverVars, script, df, existing_zips, output_file,
                   retry_count, cost, run, extractorVars>>

\* lines 122-125
App2Row ==
    /\ script = "app2" /\ bpc = "loop" /\ idx <= Len(df)
    /\ retry_count' = 0
    /\ cost' = PyInt(0)
    /\ bpc' = "while"
    /\ UNCHANGED <<summary, slept, toolVars, resolverVars, script, df, idx, results, results_df, existing_zips,
                   output_file, run, extractorVars>>

\* lines 127-132: one more attempt (after a 5-8 s sleep when it is a retry)
App2Attempt ==
    /\ script = "app2" /\ bpc = "while"
    /\ ShouldAttempt(retry_count, cost)
    /\ slept' = IF retry_count > 0 THEN sleep(5, 8) ELSE slept
    /\ Invoke(SidebarState, ZipCode(df[idx]), idx)
    /\ UNCHANGED <<summary, toolVars, resolverVars, batchVars, browser_open, playwright, outcome>>

\* lines 132-134; an exception of the Extractor is not caught in process_csv
App2Returned ==
    /\ script = "app2" /\ bpc = "returned"
    /\ IF ret.kind = "raise"
       THEN /\ bpc' = "raised"
            /\ UNCHANGED <<cost, retry_count>>
       ELSE /\ cost' = ret.value
            /\ retry_count' = IF ret.value = PyInt(0) THEN retry_count + 1 ELSE retry_count
            /\ bpc' = "while"
    /\ UNCHANGED <<summary, slept, toolVars, resolverVars, script, df, idx, results, results_df, existing_zips,
                   output_file, run, extractorVars>>

\* lines 136-158: the row of this ZIP, progress, the 2-4 s sleep
App2Record ==
    /\ script = "app2" /\ bpc = "while"
    /\ ~ShouldAttempt(retry_count, cost)
    /\ results_df' = RecordRow(results_df,
                               ResultRowOf(SidebarState, ZipCode(df[idx]),
                                           RecordedCost(cost), idx))
    /\ slept' = sleep(2, 4)
    /\ idx' = idx + 1
    /\ bpc' = "loop"
    /\ UNCHANGED <<summary, toolVars, resolverVars, script, df, results, existing_zips, output_file,
                   retry_count, cost, run, extractorVars>>

\* line 160: "Completed processing. Got N results."
App2Finish ==
    /\ script = "app2" /\ bpc = "loop" /\ idx > Len(df)
    /\ summary' = {<<"results", Len(results_df)>>}
    /\ bpc' = "done"
    /\ UNCHANGED <<slept, toolVars, resolverVars, script, df, idx, results, results_df, existing_zips,
                   output_file, retry_count, cost, run, extractorVars>>

\* ---- run_scraper_2026.py: main, lines 72-129 ----
RunStart ==
    /\ script = "run_scraper_2026" /\ bpc = "start"
    /\ results' = <<>>
    /\ idx' = 1
    /\ bpc' = "loop"
    /\ UNCHANGED <<summary, slept, toolVars, resolverVars, script, df, results_df, existing_zips, output_file,
                   retry_count, cost, run, extractorVars>>

\* lines 96-104
RunRow ==
    /\ script = "run_scraper_2026" /\ bpc = "loop" /\ idx <= Len(df)
    /\ Invoke(df[idx].state, ZipCode(df[idx]), idx)
    /\ UNCHANGED <<summary, slept, toolVars, resolverVars, batchVars, browser_open, playwright, outcome>>

\* lines 104-114: the result, or an ERROR row when the call raised
RunReturned ==
    /\ script = "run_scraper_2026" /\ bpc = "returned"
    /\ results' = Append(results,
                         ResultRowOf(call.state, call.zip_code,
                                     IF ret.kind = "return" THEN ret.value ELSE ERROR, idx))
    /\ idx' = idx + 1
    /\ bpc' = "loop"
    /\ UNCHANGED <<summary, slept, toolVars, resolverVars, script, df, results_df, existing_zips, output_file,
                   retry_count, cost, run, extractorVars>>

\* lines 123-126: the three numbers the summary logs
RunSummary(rows) ==
    { <<"Total ZIPs processed", Len(rows)>>,
      <<"Successful", Cardinality({k \in DOMAIN rows : rows[k].Cost \notin {NA, ERROR}})>>,
      <<"Errors", Cardinality({k \in DOMAIN rows : rows[k].Cost \in {NA, ERROR}})>> }

\* lines 116-129: the results file is written once, then the summary
RunFinish ==
    /\ script = "run_scraper_2026" /\ bpc = "loop" /\ idx > Len(df)
    /\ results_df' = results
    /\ output_file' = to_csv(results)
    /\ summary' = RunSummary(results)
    /\ bpc' = "done"
    /\ UNCHANGED <<slept, toolVars, resolverVars, script, df, idx, results, existing_zips,
                   retry_count, cost, run, extractorVars>>

\* ---- scraper_v2.py: main, lines 264-355 ----
\* Series.astype(str) on a value
astype_str(v) ==
    IF v = NaNText THEN <<"n", "a", "n">>
    ELSE IF IsPyInt(v) THEN str(v[2])
    ELSE IF IsPyFloat(v) THEN str(v[2]) \o <<".", "0">>
    ELSE v

\* lines 298-299: set(existing_df['Zip'].astype(str).str.zfill(5))
LoadExistingZips_NoZfill(file) ==
    {astype_str(read_csv(file)[k].Zip) : k \in DOMAIN file}

LoadExistingZips(file) ==
    {zfill(astype_str(read_csv(file)[k].Zip), 5) : k \in DOMAIN file}

\* line 309: if zip_code in existing_zips
AlreadyProcessed(zip_code, existing) == zip_code \in existing

\* lines 314-320: the state of the row, else the lookup, else none
StateOfRow(row) ==
    IF row.state # NoState THEN row.state
    ELSE IF ZipCode(row) \in DOMAIN zip_to_state THEN zip_to_state[ZipCode(row)]
    ELSE NoState

\* lines 328-336: the file after the save of results_df
SavedFile(file, frame) ==
    IF file = NoFile THEN to_csv(frame)
    ELSE to_csv(read_csv(file) \o frame)

\* lines 285-303
V2Start ==
    /\ script = "scraper_v2" /\ bpc = "start"
    /\ results' = <<>>
    /\ results_df' = Unbound
    /\ existing_zips' = IF output_file = NoFile THEN {} ELSE LoadExistingZips(output_file)
    /\ idx' = 1
    /\ bpc' = "loop"
    /\ UNCHANGED <<summary, slept, toolVars, resolverVars, script, df, output_file, retry_count, cost, run,
                   extractorVars>>

\* lines 305-324: skip a processed ZIP, skip a ZIP without state, else scrape
V2Row ==
    /\ script = "scraper_v2" /\ bpc = "loop" /\ idx <= Len(df)
    /\ IF AlreadyProcessed(ZipCode(df[idx]), existing_zips) \/ StateOfRow(df[idx]) = NoState
       THEN /\ idx' = idx + 1
            /\ UNCHANGED <<bpc, extractorVars>>
       ELSE /\ Invoke(StateOfRow(df[idx]), ZipCode(df[idx]), idx)
            /\ UNCHANGED <<idx, browser_open, playwright, outcome>>
    /\ UNCHANGED <<summary, slept, toolVars, resolverVars, script, df, results, results_df, existing_zips,
                   output_file, retry_count, cost, run>>

\* lines 324-338: append the result and save; an exception of the Extractor
\* is not caught in main
V2Save ==
    /\ script = "scraper_v2" /\ bpc = "returned"
    /\ IF ret.kind = "raise"
       THEN /\ bpc' = "raised"
            /\ UNCHANGED <<results, results_df, output_file>>
       ELSE LET row == ResultRowOf(Upper(call.state), call.zip_code, ret.value, idx)
            IN /\ results_df' = Append(results, row)
               /\ output_file' = SavedFile(output_file, Append(results, row))
               /\ results' = <<>>
               /\ bpc' = "sleep"
    /\ UNCHANGED <<summary, slept, toolVars, resolverVars, script, df, idx, existing_zips, retry_count, cost,
                   run, extractorVars>>

\* line 340: time.sleep(1)
V2Sleep ==
    /\ script = "scraper_v2" /\ bpc = "sleep"
    /\ slept' = sleep(1, 1)
    /\ idx' = idx + 1
    /\ bpc' = "loop"
    /\ UNCHANGED <<summary, toolVars, resolverVars, script, df, results, results_df, existing_zips,
                   output_file, retry_count, cost, run, extractorVars>>

\* lines 342-355: the final save finds results empty; print(results_df) reads
\* a name that is bound only when a ZIP was processed in this run
V2Finish ==
    /\ script = "scraper_v2" /\ bpc = "loop" /\ idx > Len(df)
    /\ bpc' = IF results_df = Unbound THEN "name_error" ELSE "done"
    /\ UNCHANGED <<summary, slept, toolVars, resolverVars, batchVars, extractorVars>>

\* the run is interrupted (Ctrl-C, the process is killed): what is in memory
\* is lost, the results file stays
Interrupt ==
    /\ script = "scraper_v2"
    /\ bpc \in {"loop", "awaiting", "returned", "sleep"}
    /\ bpc' = "interrupted"
    /\ epc' = "idle"
    /\ browser_open' = FALSE
    /\ playwright' = FALSE
    /\ idx' = 0
    /\ results' = <<>>
    /\ results_df' = Unbound
    /\ existing_zips' = {}
    /\ call' = NoCall
    /\ fault' = "none"
    /\ ret' = NoRet
    /\ outcome' = [i \in DOMAIN df |-> NotCalled]
    /\ attempts' = [i \in DOMAIN df |-> 0]
    /\ UNCHANGED <<summary, slept, toolVars, resolverVars, script, df, output_file, retry_count, cost, run>>

\* the script is started again on the same request list
Rerun ==
    /\ script = "scraper_v2"
    /\ bpc \in {"done", "name_error", "raised", "interrupted"}
    /\ run < MaxRuns
    /\ run' = run + 1
    /\ bpc' = "start"
    /\ idx' = 0
    /\ results' = <<>>
    /\ results_df' = Unbound
    /\ existing_zips' = {}
    /\ call' = NoCall
    /\ fault' = "none"
    /\ ret' = NoRet
    /\ outcome' = [i \in DOMAIN df |-> NotCalled]
    /\ attempts' = [i \in DOMAIN df |-> 0]
    /\ slept' = <<>>
    /\ summary' = {}
    /\ UNCHANGED <<toolVars, resolverVars, script, df, output_file, retry_count, cost, epc,
                   browser_open, playwright>>

ResolverIdle ==
    /\ variant = "none"
    /\ zip_county_df = <<>>
    /\ areas_df = <<>>
    /\ result = <<>>
    /\ iter_frame = <<>>
    /\ ri = 0
    /\ zip3_mapping = <<>>
    /\ county_mapping = <<>>
    /\ unmatched_csv = NoReport
    /\ rpc = "off"

Scripts == {"app", "app2", "run_scraper_2026", "scraper_v2"}

InitScrape ==
    /\ ResolverIdle
    /\ ToolIdle
    /\ script \in Scripts
    /\ df \in SeqsUpTo(RequestPool, MaxRequests)
    /\ idx = 0
    /\ bpc = "start"
    /\ results = <<>>
    /\ results_df = Unbound
    /\ existing_zips = {}
    /\ output_file = NoFile
    /\ retry_count = 0
    /\ cost = PyInt(0)
    /\ run = 1
    /\ call = NoCall
    /\ epc = "idle"
    /\ browser_open = FALSE
    /\ playwright = FALSE
    /\ fault = "none"
    /\ ret = NoRet
    /\ outcome = [i \in DOMAIN df |-> NotCalled]
    /\ attempts = [i \in DOMAIN df |-> 0]
    /\ slept = <<>>
    /\ summary = {}

NextScrape ==
    \/ ExtLaunch
    \/ ExtNewPage
    \/ ExtProtocol
    \/ ExtExtract
    \/ ExtReturn
    \/ ExtExcept
    \/ ExtExit
    \/ AppStart
    \/ AppRow
    \/ AppReturned
    \/ AppFinish
    \/ App2Start
    \/ App2Row
    \/ App2Attempt
    \/ App2Returned
    \/ App2Record
    \/ App2Finish
    \/ RunStart
    \/ RunRow
    \/ RunReturned
    \/ RunFinish
    \/ V2Start
    \/ V2Row
    \/ V2Save
    \/ V2Sleep
    \/ V2Finish
    \/ Interrupt
    \/ Rerun

SpecScrape == InitScrape /\ [][NextScrape]_vars

(***************************************************************************)
(* Claims about the Batch Runners and the Quote Extractor.                 *)
(***************************************************************************)
\* the rows of the persisted results file
FileRows == IF output_file = NoFile THEN <<>> ELSE output_file

\* the ZIP a cell of the Zip column stands for
ZipOfCell(cell) == zfill(str(int(cell)), 5)

\* the (state, zip) keys of the persisted results
FileKeys == {<<FileRows[k].State, ZipOfCell(FileRows[k].Zip)>> : k \in DOMAIN FileRows}

\* the (state, zip) keys one run over the whole list persists: a row for every
\* request whose state is given or found
OneRunKeys ==
    {<<Upper(StateOfRow(df[i])), ZipCode(df[i])>> :
        i \in {j \in DOMAIN df : StateOfRow(df[j]) # NoState}}

\* the request list names no ZIP twice
DistinctZips == \A i, j \in DOMAIN df : ZipCode(df[i]) = ZipCode(df[j]) => i = j

\* a second or later run of scraper_v2 has gone through the whole list
ResumedRunComplete ==
    /\ script = "scraper_v2"
    /\ run >= 2
    /\ bpc \in {"done", "name_error"}

\* C4 as stated: after a second run of scraper_v2 on the same list, with the
\* file of the first (possibly interrupted) run present, the keys of the file
\* are those of one uninterrupted run and no key is in two rows.
C4_IdempotentResumeAsStated ==
    ResumedRunComplete =>
        /\ FileKeys = OneRunKeys
        /\ Cardinality(FileKeys) = Len(FileRows)

\* C4 restricted to request lists whose ZIPs are pairwise distinct.
C4_IdempotentResume ==
    (ResumedRunComplete /\ DistinctZips) =>
        /\ FileKeys = OneRunKeys
        /\ Cardinality(FileKeys) = Len(FileRows)

\* a second run has completed a list of two distinct ZIPs of which the first
\* run had persisted one: it skipped that one and scraped the other
C4_Witness ==
    /\ ResumedRunComplete /\ DistinctZips
    /\ run = 2
    /\ Len(FileRows) = 2
    /\ \E k \in DOMAIN FileRows : FileRows[k].run = 1
    /\ \E k \in DOMAIN FileRows : FileRows[k].run = 2

\* C5: while scrape_kff_calculator runs in scraper_v2, its ZIP is the ZIP of no
\* row that an earlier run left in the results file.
C5_NoRefetch ==
    (script = "scraper_v2" /\ epc # "idle") =>
        \A k \in DOMAIN FileRows :
            FileRows[k].run < run => int(FileRows[k].Zip) # int(call.zip_code)

\* a resumed run is scraping a ZIP while the file holds a row of the first
\* run whose ZIP has a leading zero
C5_Witness ==
    /\ script = "scraper_v2" /\ epc # "idle" /\ run = 2
    /\ \E k \in DOMAIN FileRows :
          FileRows[k].run = 1 /\ int(FileRows[k].Zip) < 10000

\* C6: in app2's process_csv every ZIP gets at most max_retries invocations
\* of the Extractor, every ZIP that has its row got at least one, and an
\* invocation is made only while no earlier attempt for the ZIP returned a cost.
C6_RetryBound ==
    script = "app2" =>
        /\ \A i \in DOMAIN df : attempts[i] <= max_retries
        /\ \A i \in DOMAIN df : i < idx => attempts[i] >= 1
        /\ \A i \in DOMAIN df :
              (epc # "idle" /\ call.req = i /\ attempts[i] > 1)
              => outcome[i].ret = Returns(PyInt(0))

\* a batch has ended with one ZIP tried max_retries times and another ZIP
\* that got its cost at the first attempt
C6_Witness ==
    /\ script = "app2" /\ bpc = "done"
    /\ \E i, j \in DOMAIN df :
          /\ attempts[i] = max_retries
          /\ attempts[j] = 1
          /\ outcome[j].ret # Returns(PyInt(0))

\* every attempt for request i returned the sentinel 0
AllAttemptsSentinel(i) ==
    /\ attempts[i] = max_retries
    /\ epc = "idle"
    /\ outcome[i].ret = Returns(PyInt(0))

\* C7: in app2's process_csv, once every attempt for a ZIP has returned the
\* sentinel, no exception leaves the loop at that ZIP, the ZIP gets exactly
\* one row and it holds the sentinel, and the loop goes on to the next ZIP.
C7_SentinelRecorded ==
    script = "app2" =>
        \A i \in DOMAIN df :
            AllAttemptsSentinel(i) =>
                /\ idx >= i
                /\ idx = i => bpc \in {"returned", "while"}
                /\ idx > i =>
                      /\ Cardinality({k \in DOMAIN results_df : results_df[k].req = i}) = 1
                      /\ \A k \in DOMAIN results_df :
                            results_df[k].req = i => results_df[k].Cost = PyInt(0)
                /\ (idx = i + 1 /\ i < Len(df)) =>
                      bpc \in {"loop", "while", "awaiting", "returned", "raised"}
                /\ (idx = i + 1 /\ idx \in DOMAIN df /\ bpc = "raised") =>
                      outcome[idx].ret = Raises

\* a ZIP whose three attempts all returned 0 has its row and the next ZIP is
\* being scraped
C7_Witness ==
    /\ script = "app2"
    /\ \E i \in DOMAIN df :
          /\ AllAttemptsSentinel(i)
          /\ idx = i + 1
          /\ idx \in DOMAIN df
          /\ attempts[idx] >= 1
          /\ \E k \in DOMAIN results_df :
                results_df[k].req = i /\ results_df[k].Cost = PyInt(0)

\* C8: when an invocation of scrape_kff_calculator has ended (returned or
\* raised) no browser is open, and the try block is left, on its return path
\* and on its except path alike, with the browser closed.
C8_SessionReleased ==
    /\ epc = "idle" => ~browser_open
    /\ (epc = "exit" /\ fault # "new_page") => ~browser_open

\* an invocation whose page interaction raised has ended
C8_Witness ==
    /\ epc = "idle" /\ bpc = "returned"
    /\ fault = "interaction"
    /\ ~browser_open

\* the error sentinel of a script
ErrorSentinel == IF script = "app2" THEN PyInt(0) ELSE ERROR

\* the rows the batch has produced so far
BatchRows ==
    CASE script = "app" -> results
      [] script = "run_scraper_2026" -> results
      [] script = "app2" -> results_df
      [] script = "scraper_v2" -> FileRows

\* C9: when the batch loop has passed a request whose page interaction failed,
\* the output has a row of that request with the error sentinel, and no
\* exception has left the loop.
C9_FailureBecomesSentinelRow ==
    \A i \in DOMAIN df :
        (script \in Scripts /\ outcome[i].fault = "interaction" /\ idx > i) =>
            /\ \E k \in DOMAIN BatchRows :
                  BatchRows[k].req = i /\ BatchRows[k].Cost = ErrorSentinel
            /\ bpc # "raised"

\* C10: an invocation that found the results page without the dollar pattern
\* returns "N/A"; one whose page interaction failed (element missing,
\* timeout) returns "ERROR".
C10_SentinelsDistinct ==
    (script \in Scripts /\ epc = "idle" /\ bpc = "returned") =>
        /\ fault = "pattern_absent" => ret = Returns(NA)
        /\ fault \in {"interaction", "element_missing"} => ret = Returns(ERROR)

\* the results file holds the row that request i got in the current run
Persisted(i) ==
    \E k \in DOMAIN FileRows : FileRows[k].req = i /\ FileRows[k].run = run

\* C11: in scraper_v2 and run_scraper_2026, while the Extractor works on a
\* request, the results file holds the result of every earlier request that
\* was scraped in this run.
C11_IncrementalPersistence ==
    (script \in {"scraper_v2", "run_scraper_2026"} /\ epc # "idle") =>
        \A i \in DOMAIN df :
            (i < call.req /\ outcome[i] # NotCalled) => Persisted(i)

\* C11 restricted to scraper_v2.
C11_IncrementalPersistenceV2 ==
    (script = "scraper_v2" /\ epc # "idle") =>
        \A i \in DOMAIN df :
            (i < call.req /\ outcome[i] # NotCalled) => Persisted(i)

\* scraper_v2 is scraping the second request of the list after it scraped
\* and saved the first one in the same run
C11_WitnessV2 ==
    /\ script = "scraper_v2" /\ epc # "idle"
    /\ call.req = 2
    /\ outcome[1] # NotCalled
    /\ Persisted(1)

(***************************************************************************)
(* Further claims about the Resolver.                                      *)
(***************************************************************************)
\* the area mergeLA9 leaves on a record, from the record and the rule table
\* alone
LA9Area(rec) ==
    IF rec.STATE_ \in territories THEN "1"
    ELSE IF rec.STATE_ = "CA" /\ Zip3Of(rec) \in LA16 THEN "16"
    ELSE IF OrdinaryArea(rec) # NaN THEN OrdinaryArea(rec)
    ELSE IF rec.STATE_ = "CA" /\ Zip3Of(rec) \in LA15 THEN "15"
    ELSE NaN

\* the mapping as a function of the arguments of merge_rating_areas
MappingOfInputs ==
    IF variant = "mergeLA9"
    THEN [i \in DOMAIN zip_county_df |->
             ResultRow(zip_county_df, i, zip_county_df[i].COUNTYNAME,
                       LA9Area(zip_county_df[i]))]
    ELSE SelectRows([i \in DOMAIN zip_county_df |->
                        ResultRow(zip_county_df, i,
                                  standardize_county_name(zip_county_df[i].COUNTYNAME),
                                  OrdinaryArea(zip_county_df[i]))],
                    {i \in DOMAIN zip_county_df : B6Kept(zip_county_df[i])})

\* C12: the mapping merge_rating_areas returns is a function of the records
\* and the rules it was given: the same rows, in the same order, with the same
\* rating_area, in every run on these arguments.
C12_ResolverDeterministic ==
    rpc = "done" => result = MappingOfInputs

\* a run has returned a mapping of two rows for a rule table that has two
\* rules of one (state, ZIP3) key with different areas, and a record of that key
C12_Witness ==
    /\ rpc = "done"
    /\ Len(result) = 2
    /\ \E a, b \in DOMAIN areas_df :
          /\ a < b
          /\ areas_df[a].STATE_ = areas_df[b].STATE_
          /\ areas_df[a].COUNTY_ZIP3 = areas_df[b].COUNTY_ZIP3
          /\ areas_df[a].AREA # areas_df[b].AREA
          /\ \E k \in DOMAIN result :
                /\ result[k].state = areas_df[a].STATE_
                /\ result[k].ZIP3 = areas_df[a].COUNTY_ZIP3
                /\ result[k].rating_area = areas_df[b].AREA

(***************************************************************************)
(* The pure helpers and the data-preparation scripts: steps.               *)
(***************************************************************************)
\* largest integer ZIP value the normalization is applied to
MaxZip == 10200

\* app.py line 86, scraper_v2.py line 306: str(row['zip_code']).zfill(5)
NormalizeZip_NoPad(z) == str(z)

NormalizeZip(z) == zfill(str(z), 5)

\* the normalization applied to one integer ZIP
ZipNormalize ==
    /\ tool = "zfill" /\ tpc = "start"
    /\ tout' = NormalizeZip(tin)
    /\ tpc' = "done"
    /\ UNCHANGED <<tool, tin, resolverVars, scrapeVars>>

DeWittCounty == <<"D", "e", " ", "W", "i", "t", "t", " ", "C", "o", "u", "n", "t", "y">>

DeWitt == <<"D", "e", "W", "i", "t", "t">>

StLouis == <<"S", "t", " ", "L", "o", "u", "i", "s">>

StDotLouis == <<"S", "t", ".", " ", "L", "o", "u", "i", "s">>

SaintLandryParish == <<"S", "a", "i", "n", "t", " ", "L", "a", "n", "d", "r", "y", " ", "P", "a", "r", "i", "s", "h">>

TrailCounty == <<" ", "T", "r", "a", "i", "l", " ", "C", "o", "u", "n", "t", "y", " ">>

DupageCounty == <<"D", "u", "p", "a", "g", "e", " ", "C", "o", "u", "n", "t", "y">>

\* county names the normalizer is applied to
NameInputs == {DeWittCounty, StLouis, SaintLandryParish, TrailCounty, DupageCounty,
               LosAngelesCounty, SuffolkCounty, Guam}

\* s has old as a substring
Contains(s, old) == \E i \in 1..Len(s) : StartsWithAt(s, i, old)

\* mergeLA9.py lines 8-81 applied to one county name
CountyStandardize ==
    /\ tool = "standardize_county_name" /\ tpc = "start"
    /\ tout' = standardize_county_name(tin)
    /\ tpc' = "done"
    /\ UNCHANGED <<tool, tin, resolverVars, scrapeVars>>

\* ---- update_yaml_2026.py ----
\* bound on the rows of the scraped results joined with the mapping
MaxRows == 2

\* a date key as yaml.safe_load gives it (a datetime.date) and as a str
DateKey(d) == <<"date", d>>

StrKey(d) == <<"str", d>>

\* lines 94-99: str(date_key) for a key that is not a str
DateToStr(k) == IF k[1] = "date" THEN StrKey(k[2]) ELSE k

Key2026 == StrKey("2026-01-01")

\* the data section of state_rating_area_cost.yaml as loaded (line 77):
\* state -> rating area -> date -> cost; area keys are ints or strs
YamlPool ==
    { [s \in {"MA", "ME"} |->
         IF s = "MA"
         THEN (PyInt(1) :> (DateKey("2025-01-01") :> PyFloat(400)))
              @@ (PyInt(2) :> (DateKey("2025-01-01") :> PyFloat(410)
                               @@ StrKey("2026-01-01") :> PyFloat(999)))
         ELSE (<<"3", "N">> :> (DateKey("2024-01-01") :> PyFloat(370)
                                @@ DateKey("2025-01-01") :> PyFloat(380)))],
      [s \in {"MA"} |->
         (PyInt(1) :> (StrKey("2025-01-01") :> PyFloat(400))) ] }

\* rows of df after the merge of lines 32-38: the scraped State and cost and
\* the rating_area the mapping has for the ZIP (NaN when it has none)
JoinedRowPool ==
    { [State |-> "MA", rating_area |-> <<"1">>,      Cost |-> <<"4", "1", "2">>],
      [State |-> "MA", rating_area |-> PyFloat(2),   Cost |-> <<"5", "0", "0">>],
      [State |-> "MA", rating_area |-> <<"1">>,      Cost |-> NaNText],
      [State |-> "MA", rating_area |-> <<"1">>,      Cost |-> ERROR],
      [State |-> "ME", rating_area |-> <<"3", "N">>, Cost |-> <<"3", "9", "5">>],
      [State |-> "MA", rating_area |-> <<"9">>,      Cost |-> <<"3", "0", "0">>],
      [State |-> "TX", rating_area |-> <<"1">>,      Cost |-> <<"2", "0", "0">>],
      [State |-> "MA", rating_area |-> NaNText,      Cost |-> <<"1", "0", "0">>] }

\* line 41: df[df['Unsubsidized Cost'] != 'ERROR']
WithoutErrors(rows) == SelectSeq(rows, LAMBDA r : r.Cost # ERROR)

\* line 45: pd.to_numeric(..., errors='coerce')
to_numeric(text) == IF isdigit(text) THEN PyFloat(int(text)) ELSE NaNText

\* line 49: groupby(['State', 'rating_area'])['Unsubsidized Cost'].first()
\* .to_dict(): a key for every group (rows with a NaN rating_area are in no
\* group), its value the first non-NaN cost of the group, NaN if it has none
slspc_2026(rows) ==
    LET kept == WithoutErrors(rows)
        groups == {<<kept[i].State, kept[i].rating_area>> :
                      i \in {j \in DOMAIN kept : kept[j].rating_area # NaNText}}
        members(g) == {i \in DOMAIN kept :
                          <<kept[i].State, kept[i].rating_area>> = g}
        valued(g) == {i \in members(g) : to_numeric(kept[i].Cost) # NaNText}
    IN [g \in groups |->
           IF valued(g) = {} THEN NaNText
           ELSE to_numeric(kept[CHOOSE i \in valued(g) :
                                   \A j \in valued(g) : i <= j].Cost)]

\* lines 79-100: the same structure with every date key a str
ordered_data(data) ==
    [s \in DOMAIN data |->
        [a \in DOMAIN data[s] |->
            [k \in {DateToStr(d) : d \in DOMAIN data[s][a]} |->
                data[s][a][CHOOSE d \in DOMAIN data[s][a] : DateToStr(d) = k]]]]

\* lines 125-140: the key of the YAML for an area of the CSV
area_key(area) ==
    IF IsPyFloat(area) THEN PyInt(area[2])
    ELSE IF IsPyInt(area) THEN area
    ELSE IF isdigit(area) THEN PyInt(int(area))
    ELSE area

\* lines 121-154: the 2026-01-01 key of every (state, area) of slspc_2026
\* that the YAML has is set to float(cost)
AddValues2026(od, sl) ==
    [s \in DOMAIN od |->
        [a \in DOMAIN od[s] |->
            LET hits == {g \in DOMAIN sl : g[1] = s /\ area_key(g[2]) = a}
            IN IF hits = {} THEN od[s][a]
               ELSE [k \in DOMAIN od[s][a] \cup {Key2026} |->
                        IF k = Key2026 THEN sl[CHOOSE g \in hits : TRUE]
                        ELSE od[s][a][k]]]]

\* the script, from the joined results and the loaded YAML to the structure
\* it dumps (lines 40-154)
UpdateYaml ==
    /\ tool = "update_yaml_2026" /\ tpc = "start"
    /\ tout' = AddValues2026(ordered_data(tin.data), slspc_2026(tin.rows))
    /\ tpc' = "done"
    /\ UNCHANGED <<tool, tin, resolverVars, scrapeVars>>

\* ---- filter3.py, generate_zip_list_2026.py: filter_zip_codes;
\* ---- filter.py: create_filtered_dataset ----
\* filter3.py lines 9-15: the 50 states and DC
valid_states ==
    {"AL", "AK", "AZ", "AR", "CA", "CO", "CT", "DC", "DE", "FL",
     "GA", "HI", "ID", "IL", "IN", "IA", "KS", "KY", "LA", "ME",
     "MD", "MA", "MI", "MN", "MS", "MO", "MT", "NE", "NV", "NH",
     "NJ", "NM", "NY", "NC", "ND", "OH", "OK", "OR", "PA", "RI",
     "SC", "SD", "TN", "TX", "UT", "VT", "VA", "WA", "WV", "WI", "WY"}

\* rows of merged_results_v9.csv the inputs are drawn from
MappingRowPool ==
    { [zip_code |-> 2108,  county_standardized |-> "Suffolk", state |-> "MA", rating_area |-> "1"],
      [zip_code |-> 2108,  county_standardized |-> "Norfolk", state |-> "MA", rating_area |-> "1"],
      [zip_code |-> 2109,  county_standardized |-> "Suffolk", state |-> "MA", rating_area |-> "1"],
      [zip_code |-> 1001,  county_standardized |-> "Hampden", state |-> "MA", rating_area |-> "2"],
      [zip_code |-> 96910, county_standardized |-> "Guam",    state |-> "GU", rating_area |-> "1"],
      [zip_code |-> 4001,  county_standardized |-> "York",    state |-> "ME", rating_area |-> NaN] }

\* the scripts that pick the representative ZIPs
FilterTools == {"filter3", "generate_zip_list_2026", "filter"}

\* filter3.py lines 18-23 (generate_zip_list_2026.py lines 22-30): the rows of
\* valid states (in generate_zip_list_2026 only those with a rating area)
\* whose ZIP has one county among these rows
SingleCountyRows(t, rows) ==
    LET valid == SelectSeq(rows, LAMBDA r :
                     /\ r.state \in valid_states
                     /\ (t = "generate_zip_list_2026" => r.rating_area # NaN))
        counties(z) == {valid[i].county_standardized :
                           i \in {j \in DOMAIN valid : valid[j].zip_code = z}}
    IN SelectSeq(valid, LAMBDA r : Cardinality(counties(r.zip_code)) = 1)

\* filter3.py line 26: state + '_' + rating_area.astype(str)
state_rating_area(r) == <<r.state, "_", r.rating_area>>

\* the row of the output for a sampled row: its ZIP zero-filled (line 37)
PickedRow(r) ==
    [zip_code |-> NormalizeZip(r.zip_code), state |-> r.state,
     rating_area |-> r.rating_area]

\* filter3.py lines 29-37: one row of each state_rating_area group; which row
\* sample(n=1, random_state=42) takes depends on the size of the group
SampledSets(frame) ==
    LET groups == {state_rating_area(frame[i]) : i \in DOMAIN frame}
        members(g) == {i \in DOMAIN frame : state_rating_area(frame[i]) = g}
        picks == {f \in [groups -> DOMAIN frame] : \A g \in groups : f[g] \in members(g)}
    IN {{PickedRow(frame[f[g]]) : g \in groups} : f \in picks}

\* filter.py lines 16-22: the first ZIP of each (state, rating_area) group;
\* groupby leaves out the rows without rating area
FirstOfGroups(rows) ==
    LET keyed == {i \in DOMAIN rows : rows[i].rating_area # NaN}
        key(i) == <<rows[i].state, rows[i].rating_area>>
        firsts == {i \in keyed : \A j \in keyed : key(j) = key(i) => i <= j}
    IN {PickedRow(rows[i]) : i \in firsts}

\* the representative ZIPs of the mapping
FilterZipCodes ==
    /\ tool \in FilterTools /\ tpc = "start"
    /\ IF tool = "filter"
       THEN tout' = FirstOfGroups(tin)
       ELSE tout' \in SampledSets(SingleCountyRows(tool, tin))
    /\ tpc' = "done"
    /\ UNCHANGED <<tool, tin, resolverVars, scrapeVars>>

\* ---- scrape_kff_calculator: the household step of the form ----
\* select #number-people-alternate = individual, no age field
Individual == [alternate |-> "individual", adults |-> "unset", children |-> "unset",
               age_field |-> "none", age |-> <<>>]

\* select #number-adults = 1, #number-children = 0, adults[0][age] = str(age)
Adult(age) == [alternate |-> "unset", adults |-> "1", children |-> "0",
               age_field |-> "adults[0][age]", age |-> str(age)]

\* select #number-adults = 0, #number-children = 1, children[0][age] = str(age)
Child(age) == [alternate |-> "unset", adults |-> "0", children |-> "1",
               age_field |-> "children[0][age]", age |-> str(age)]

\* app.py lines 29-39, app2.py lines 41-51, run_scraper_2026.py lines 32-38,
\* scraper_v2.py lines 134-144: what the script selects before it submits
HouseholdSelections(scr, state, age) ==
    CASE scr \in {"app", "app2"} ->
            IF Upper(state) \in {"NY", "VT"} THEN Individual
            ELSE IF age >= 21 THEN Adult(age) ELSE Child(age)
      [] scr = "run_scraper_2026" ->
            IF Upper(state) \in {"NY", "VT"} THEN Individual ELSE Child(age)
      [] scr = "scraper_v2" ->
            IF age <= 20 THEN Child(age) ELSE Adult(age)

\* states and ages the household step is run with
HouseholdInputs ==
    [script : Scripts, state : {"NY", "vt", "MA", "ca"}, age : {0, 20, 21, 30, 64}]

\* the household step of one invocation
HouseholdStep ==
    /\ tool = "household" /\ tpc = "start"
    /\ tout' = HouseholdSelections(tin.script, tin.state, tin.age)
    /\ tpc' = "done"
    /\ UNCHANGED <<tool, tin, resolverVars, scrapeVars>>

\* ---- mergingcosts.py; filter.py: map_results_back ----
\* rows of merged_results_v9.csv the broadcast is run on: two ZIPs of one
\* rating area, a ZIP with rows in two rating areas, a row without rating area
FullRowPool ==
    { [zip_code |-> 2108, state |-> "MA", rating_area |-> "1"],
      [zip_code |-> 2109, state |-> "MA", rating_area |-> "1"],
      [zip_code |-> 2109, state |-> "MA", rating_area |-> "2"],
      [zip_code |-> 4001, state |-> "ME", rating_area |-> NaN] }

\* rows of the scraped results file, as its cells are written
ScrapedRowPool ==
    { [Zip |-> <<"0", "2", "1", "0", "8">>, State |-> "MA", Cost |-> <<"4", "1", "2">>],
      [Zip |-> <<"0", "2", "1", "0", "8">>, State |-> "MA", Cost |-> <<"1", ",", "2", "3", "4">>],
      [Zip |-> <<"0", "2", "1", "0", "8">>, State |-> "MA", Cost |-> NA],
      [Zip |-> <<"0", "2", "1", "0", "9">>, State |-> "MA", Cost |-> <<"4", "1", "2">>],
      [Zip |-> <<"0", "2", "1", "0", "9">>, State |-> "MA", Cost |-> <<"1", ",", "2", "3", "4">>],
      [Zip |-> <<"0", "2", "1", "0", "9">>, State |-> "NH", Cost |-> <<"3", "9", "5">>],
      [Zip |-> <<"0", "4", "0", "0", "1">>, State |-> "ME", Cost |-> ERROR] }

\* the scripts that carry the scraped costs to every row of the mapping
BroadcastTools == {"mergingcosts", "map_results_back"}

\* mergingcosts.py line 10: the .str accessor exists on a column of strings
\* only; read_csv leaves strings when a cell is not a number and not missing
HasStrAccessor(scraped) ==
    \/ Len(scraped) = 0
    \/ ColumnKind({scraped[k].Cost : k \in DOMAIN scraped}) = "object"

\* mergingcosts.py line 10: astype(float) takes the cell without its commas
IsFloatText(cell) == IsNACell(cell) \/ isdigit(replace(cell, <<",">>, <<>>))

\* mergingcosts.py line 10: .str.replace(',', '').astype(float) on a cell
slspc(cell) ==
    IF IsNACell(cell) THEN NaNText
    ELSE PyFloat(int(replace(cell, <<",">>, <<>>)))

\* mergingcosts.py lines 8-13: the zip_code and slspc columns of scraped_df
ScrapedFrame(scraped) ==
    LET zipKind == ColumnKind({scraped[k].Zip : k \in DOMAIN scraped})
    IN [k \in DOMAIN scraped |->
           [zip_code |-> zfill(astype_str(ParseCell(zipKind, scraped[k].Zip)), 5),
            slspc |-> slspc(scraped[k].Cost)]]

\* a row of the mapping with a cost
WithCost(r, zip, c) ==
    [zip_code |-> zip, state |-> r.state, rating_area |-> r.rating_area, slspc |-> c]

RECURSIVE LeftMerge(_, _)
\* mergingcosts.py lines 14-19: full_df.merge(..., on='zip_code', how='left'),
\* the rows of full_df in their order, each once for every scraped row of its
\* ZIP, once with a missing cost when there is none
LeftMerge(full, right) ==
    IF full = <<>> THEN <<>>
    ELSE LET r == Head(full)
             zip == NormalizeZip(r.zip_code)
             hits == SelectSeq(right, LAMBDA s : s.zip_code = zip)
         IN (IF hits = <<>> THEN <<WithCost(r, zip, NaNText)>>
             ELSE [k \in DOMAIN hits |-> WithCost(r, zip, hits[k].slspc)])
            \o LeftMerge(Tail(full), right)

\* the (state, rating_area) groups of a frame: groupby leaves out the rows
\* without rating area
PairsOf(frame) ==
    {<<frame[i].state, frame[i].rating_area>> :
        i \in {j \in DOMAIN frame : frame[j].rating_area # NaN}}

\* mergingcosts.py line 22: groupby(['state', 'rating_area'])['slspc'].first(),
\* the first cost of the group that is not missing, NaN when it has none
slspc_mapping(merged) ==
    [g \in PairsOf(merged) |->
        LET valued == {i \in DOMAIN merged :
                          /\ <<merged[i].state, merged[i].rating_area>> = g
                          /\ merged[i].slspc # NaNText}
        IN IF valued = {} THEN NaNText
           ELSE merged[CHOOSE i \in valued : \A j \in valued : i <= j].slspc]

\* only the rows without a cost are filled
FillCosts_MissingOnly(merged, mapping) ==
    [i \in DOMAIN merged |->
        IF merged[i].rating_area # NaN /\ merged[i].slspc = NaNText
        THEN [merged[i] EXCEPT
                 !.slspc = mapping[<<merged[i].state, merged[i].rating_area>>]]
        ELSE merged[i]]

\* mergingcosts.py lines 25-29: every row of a group is given the cost of the
\* group
FillCosts(merged, mapping) ==
    [i \in DOMAIN merged |->
        IF merged[i].rating_area # NaN
        THEN [merged[i] EXCEPT
                 !.slspc = mapping[<<merged[i].state, merged[i].rating_area>>]]
        ELSE merged[i]]

\* mergingcosts.py lines 8-29: final_df
final_df(full, scraped) ==
    LET merged_df == LeftMerge(full, ScrapedFrame(scraped))
    IN FillCosts(merged_df, slspc_mapping(merged_df))

\* the value dict.get gives for a key the dict does not have
None == <<"None">>

\* filter.py lines 45-55: the scraped rows joined to the distinct rows of the
\* mapping on ZIP and state, as a dict from (state, rating_area) to the cost
\* read_csv gave; a later row replaces an earlier one of the same key
cost_mapping(full, scraped) ==
    LET frame == read_csv(scraped)
        joined(k) == {i \in DOMAIN full :
                         /\ PyInt(full[i].zip_code) = frame[k].Zip
                         /\ full[i].state = frame[k].State}
        keys == {<<full[i].state, full[i].rating_area>> :
                    i \in UNION {joined(k) : k \in DOMAIN frame}}
        last(g) == CHOOSE k \in DOMAIN frame :
                      /\ \E i \in joined(k) : <<full[i].state, full[i].rating_area>> = g
                      /\ \A m \in DOMAIN frame :
                            (\E i \in joined(m) : <<full[i].state, full[i].rating_area>> = g)
                                => m <= k
    IN [g \in keys |-> frame[last(g)].Cost]

\* filter.py lines 58-61: cost_mapping.get((state, rating_area)) on every row;
\* a key with a NaN is never found again
map_results_back(full, scraped) ==
    LET cm == cost_mapping(full, scraped)
    IN [i \in DOMAIN full |->
           WithCost(full[i], full[i].zip_code,
                    IF /\ full[i].rating_area # NaN
                       /\ <<full[i].state, full[i].rating_area>> \in DOMAIN cm
                    THEN cm[<<full[i].state, full[i].rating_area>>]
                    ELSE None)]

\* mergingcosts.py as a whole: line 10 raises AttributeError on a cost column
\* that is not of strings and ValueError on a cell that is not a number
MergingCosts ==
    /\ tool = "mergingcosts" /\ tpc = "start"
    /\ IF ~HasStrAccessor(tin.scraped)
       THEN tpc' = "AttributeError" /\ tout' = <<>>
       ELSE IF \E k \in DOMAIN tin.scraped : ~IsFloatText(tin.scraped[k].Cost)
       THEN tpc' = "ValueError" /\ tout' = <<>>
       ELSE tpc' = "done" /\ tout' = final_df(tin.full, tin.scraped)
    /\ UNCHANGED <<tool, tin, resolverVars, scrapeVars>>

\* filter.py: map_results_back as a whole
MapResultsBack ==
    /\ tool = "map_results_back" /\ tpc = "start"
    /\ tout' = map_results_back(tin.full, tin.scraped)
    /\ tpc' = "done"
    /\ UNCHANGED <<tool, tin, resolverVars, scrapeVars>>

InitTools ==
    /\ ResolverIdle
    /\ ScrapeIdle
    /\ tpc = "start"
    /\ tout = <<>>
    /\ \/ tool = "zfill" /\ tin \in 0..MaxZip
       \/ tool = "standardize_county_name" /\ tin \in NameInputs
       \/ tool \in FilterTools /\ tin \in SeqsUpTo(MappingRowPool, MaxRows)
       \/ tool = "household" /\ tin \in HouseholdInputs
       \/ /\ tool = "update_yaml_2026"
          /\ tin \in [data : YamlPool, rows : SeqsUpTo(JoinedRowPool, MaxRows)]
       \/ /\ tool \in BroadcastTools
          /\ tin \in [full : SeqsUpTo(FullRowPool, MaxRows),
                      scraped : SeqsUpTo(ScrapedRowPool, MaxRows)]

NextTools ==
    \/ ZipNormalize
    \/ CountyStandardize
    \/ UpdateYaml
    \/ FilterZipCodes
    \/ HouseholdStep
    \/ MergingCosts
    \/ MapResultsBack

SpecTools == InitTools /\ [][NextTools]_vars

(***************************************************************************)
(* Claims about the pure helpers and the data-preparation scripts.         *)
(***************************************************************************)
\* C13: the normalized form of an integer ZIP from 0 to MaxZip (every ZIP
\* below 10000 among them) has exactly 5 characters, all digits, and converts
\* back to the integer.
C13_ZipNormalization ==
    (tool = "zfill" /\ tpc = "done") =>
        /\ Len(tout) = 5
        /\ isdigit(tout)
        /\ int(tout) = tin

\* a ZIP below 10000 has been normalized to a string with a leading zero
C13_Witness ==
    /\ tool = "zfill" /\ tpc = "done"
    /\ tin = 2108
    /\ tout = <<"0", "2", "1", "0", "8">>

\* the three components together: the Resolver, the Batch Runners with the
\* Extractor, and the helpers and data-preparation scripts, each started alone
InitAll == InitResolver \/ InitScrape \/ InitTools

NextAll == NextResolver \/ NextScrape \/ NextTools

SpecAll == InitAll /\ [][NextAll]_vars

\* C13 with the uses of the normalization: the normalized form of an integer
\* ZIP has exactly 5 digits and converts back to the integer; the ZIP the
\* Extractor is called with is the normalized ZIP of the request row; the
\* zip_code of a mapping row is the normalized ZIP of its record and its ZIP3
\* join key is the first three characters of it.
C13_ZipNormalizationEverywhere ==
    /\ C13_ZipNormalization
    /\ epc # "idle" =>
          /\ Len(call.zip_code) = 5
          /\ isdigit(call.zip_code)
          /\ int(call.zip_code) = df[call.req].zip_code
    /\ \A k \in DOMAIN result :
          /\ Len(result[k].zip_code) = 5
          /\ isdigit(result[k].zip_code)
          /\ int(result[k].zip_code) = zip_county_df[result[k].idx].ZIP
          /\ result[k].ZIP3 = SubSeq(result[k].zip_code, 1, 3)

\* the Extractor is working on a request whose integer ZIP is below 10000
C13_WitnessExtractor ==
    /\ epc # "idle"
    /\ df[call.req].zip_code < 10000
    /\ call.zip_code[1] = "0"

\* C14: standardize_county_name turns "De Witt County" into "DeWitt" and
\* "St Louis" into "St. Louis", and its result has neither " County" nor
\* " Parish" in it and no blank at either end.
C14_CountyNormalization ==
    (tool = "standardize_county_name" /\ tpc = "done") =>
        /\ tin = DeWittCounty => tout = DeWitt
        /\ tin = StLouis => tout = StDotLouis
        /\ ~Contains(tout, <<" ", "C", "o", "u", "n", "t", "y">>)
        /\ ~Contains(tout, <<" ", "P", "a", "r", "i", "s", "h">>)
        /\ tout = strip(tout)

\* the normalizer has returned "DeWitt" for "De Witt County"
C14_Witness ==
    /\ tool = "standardize_county_name" /\ tpc = "done"
    /\ tin = DeWittCounty
    /\ tout = DeWitt

\* C14, second part: once merge_rating_areas has built its mappings, the
\* county of every record it matches and the key of every rule are results
\* of standardize_county_name.
C14_SameNormalizerBothSides ==
    rpc \notin {"off", "start"} =>
        /\ \A k \in DOMAIN iter_frame :
              iter_frame[k].county_standardized
                  = standardize_county_name(zip_county_df[iter_frame[k].idx].COUNTYNAME)
        /\ \A i \in DOMAIN areas_df :
              \E a \in RulePool :
                  /\ areas_df[i].STATE_ = a.STATE_
                  /\ areas_df[i].AREA = a.AREA
                  /\ areas_df[i].COUNTY_ZIP3 = standardize_county_name(a.COUNTY_ZIP3)

\* the structure update_yaml_2026 got keeps its states, its rating areas and,
\* under the str form of the key, every date other than 2026-01-01 with its value
FramePreserved ==
    /\ DOMAIN tout = DOMAIN tin.data
    /\ \A s \in DOMAIN tin.data :
          /\ DOMAIN tout[s] = DOMAIN tin.data[s]
          /\ \A a \in DOMAIN tin.data[s] :
                /\ \A d \in DOMAIN tin.data[s][a] :
                      DateToStr(d) # Key2026 =>
                          /\ DateToStr(d) \in DOMAIN tout[s][a]
                          /\ tout[s][a][DateToStr(d)] = tin.data[s][a][d]
                /\ DOMAIN tout[s][a] \subseteq
                      {DateToStr(d) : d \in DOMAIN tin.data[s][a]} \cup {Key2026}

\* the rows of the results that carry a cost for area a of state s
CostRows(s, a) ==
    {i \in DOMAIN tin.rows :
        /\ tin.rows[i].State = s
        /\ tin.rows[i].rating_area # NaNText
        /\ area_key(tin.rows[i].rating_area) = a
        /\ isdigit(tin.rows[i].Cost)}

\* the 2026-01-01 entry of area a of state s is not the one the YAML had
Set2026(s, a) ==
    /\ Key2026 \in DOMAIN tout[s][a]
    /\ \A d \in DOMAIN tin.data[s][a] :
          DateToStr(d) = Key2026 => tout[s][a][Key2026] # tin.data[s][a][d]

\* C15: when update_yaml_2026 is done, every state, rating area and date key
\* other than 2026-01-01 of the structure it loaded is there with its value,
\* and a 2026-01-01 entry is new or changed only for a rating area for which
\* the results hold a cost, and then it is a cost of that area.
C15_MergeNotReplace ==
    (tool = "update_yaml_2026" /\ tpc = "done") =>
        /\ FramePreserved
        /\ \A s \in DOMAIN tout : \A a \in DOMAIN tout[s] :
              Set2026(s, a) =>
                  \E i \in CostRows(s, a) :
                      tout[s][a][Key2026] = to_numeric(tin.rows[i].Cost)

\* C15, the part about the existing keys alone.
C15_FramePreserved ==
    (tool = "update_yaml_2026" /\ tpc = "done") => FramePreserved

\* an update has added a 2026-01-01 cost to an area that had dates of other
\* years, next to an area it did not touch
C15_Witness ==
    /\ tool = "update_yaml_2026" /\ tpc = "done"
    /\ \E s \in DOMAIN tout : \E a, b \in DOMAIN tout[s] :
          /\ a # b
          /\ Set2026(s, a)
          /\ tout[s][a][Key2026] # NaNText
          /\ DOMAIN tout[s][a] # {Key2026}
          /\ ~Set2026(s, b)

\* the (state, rating_area) pairs of the mapping in the 50 states and DC
PairsOfMapping ==
    {<<tin[i].state, tin[i].rating_area>> :
        i \in {j \in DOMAIN tin : tin[j].state \in valid_states /\ tin[j].rating_area # NaN}}

\* the counties the mapping has for a ZIP
CountiesOfZip(z) ==
    {tin[i].county_standardized : i \in {j \in DOMAIN tin : NormalizeZip(tin[j].zip_code) = z}}

\* C16: when the selection is done, every (state, rating_area) pair of the
\* mapping in the 50 states and DC has exactly one row in the representative
\* set, and the ZIP of that row is a ZIP of the pair with one county in the
\* mapping.
C16_RepresentativeZip ==
    (tool \in FilterTools /\ tpc = "done") =>
        \A p \in PairsOfMapping :
            LET reps == {r \in tout : r.state = p[1] /\ r.rating_area = p[2]}
            IN /\ Cardinality(reps) = 1
               /\ \A r \in reps :
                     /\ \E i \in DOMAIN tin :
                           /\ NormalizeZip(tin[i].zip_code) = r.zip_code
                           /\ tin[i].state = p[1]
                           /\ tin[i].rating_area = p[2]
                     /\ Cardinality(CountiesOfZip(r.zip_code)) = 1

\* C16 for filter_zip_codes alone and for the pairs that have a ZIP with one
\* county: one representative, a single-county ZIP of the pair.
C16_RepresentativeOfSingleCountyPairs ==
    (tool \in {"filter3", "generate_zip_list_2026"} /\ tpc = "done") =>
        \A p \in PairsOfMapping :
            LET reps == {r \in tout : r.state = p[1] /\ r.rating_area = p[2]}
                single == {i \in DOMAIN tin :
                              /\ tin[i].state = p[1] /\ tin[i].rating_area = p[2]
                              /\ Cardinality(CountiesOfZip(NormalizeZip(tin[i].zip_code))) = 1}
            IN /\ single # {} => Cardinality(reps) = 1
               /\ \A r \in reps :
                     \E i \in single : NormalizeZip(tin[i].zip_code) = r.zip_code

\* the selections the household rule asks for
HouseholdRule(state, age) ==
    IF Upper(state) \in {"NY", "VT"} THEN Individual
    ELSE IF age >= 21 THEN Adult(age)
    ELSE Child(age)

\* C17: before submit, every script has made exactly the selections of one
\* path: the individual selector and no age field for NY and VT; for another
\* state one adult, no child and the adult age field when age >= 21, no
\* adult, one child and the child age field when age < 21.
C17_HouseholdBranch ==
    (tool = "household" /\ tpc = "done") =>
        tout = HouseholdRule(tin.state, tin.age)

\* C17 for app.py and app2.py.
C17_HouseholdBranchApp ==
    (tool = "household" /\ tpc = "done" /\ tin.script \in {"app", "app2"}) =>
        tout = HouseholdRule(tin.state, tin.age)

\* C18: in the dataset mergingcosts.py or map_results_back has produced, all
\* rows that share a state and a rating area carry the same cost.
C18_OneCostPerRatingArea ==
    (tool \in BroadcastTools /\ tpc = "done") =>
        \A i, j \in DOMAIN tout :
            (/\ tout[i].rating_area # NaN
             /\ tout[i].state = tout[j].state
             /\ tout[i].rating_area = tout[j].rating_area)
                => tout[i].slspc = tout[j].slspc

\* mergingcosts.py has produced two rows of one rating area for two ZIPs that
\* were scraped with different costs, and both rows carry a cost
C18_Witness ==
    /\ tool = "mergingcosts" /\ tpc = "done"
    /\ \E i, j \in DOMAIN tout :
          /\ tout[i].zip_code # tout[j].zip_code
          /\ tout[i].rating_area = tout[j].rating_area
          /\ tout[i].slspc # NaNText
          /\ \E k, m \in DOMAIN tin.scraped :
                /\ tin.scraped[k].Zip = tout[i].zip_code
                /\ tin.scraped[m].Zip = tout[j].zip_code
                /\ tin.scraped[k].Cost # tin.scraped[m].Cost

\* the ZIPs of the scraped file are listed once each
ScrapedOnce(scraped) ==
    \A k, m \in DOMAIN scraped : scraped[k].Zip = scraped[m].Zip => k = m

\* C19 as stated: in the dataset mergingcosts.py has produced from a scraped
\* file that lists every ZIP once, each row of a scraped ZIP carries the cost
\* that was scraped for that ZIP.
C19_ScrapedValueKept ==
    (tool = "mergingcosts" /\ tpc = "done" /\ ScrapedOnce(tin.scraped)) =>
        \A i \in DOMAIN tout : \A k \in DOMAIN tin.scraped :
            tin.scraped[k].Zip = tout[i].zip_code
                => tout[i].slspc = slspc(tin.scraped[k].Cost)

\* what the broadcast does keep: the row that is the first of its rating area
\* with a cost after the merge carries the cost scraped for its ZIP
C19_FirstOfPairKept ==
    (tool = "mergingcosts" /\ tpc = "done" /\ ScrapedOnce(tin.scraped)) =>
        \A i \in DOMAIN tout : \A k \in DOMAIN tin.scraped :
            (/\ tin.scraped[k].Zip = tout[i].zip_code
             /\ \A j \in 1..(i - 1) :
                   \/ tout[j].state # tout[i].state
                   \/ tout[j].rating_area # tout[i].rating_area
                   \/ \A m \in DOMAIN tin.scraped :
                         tin.scraped[m].Zip = tout[j].zip_code
                             => slspc(tin.scraped[m].Cost) = NaNText)
                => \/ tout[i].slspc = slspc(tin.scraped[k].Cost)
                   \/ slspc(tin.scraped[k].Cost) = NaNText

\* C20 as stated: the mapping merge_rating_areas has returned has one row for
\* every input record, the k-th row being the row of the k-th record.
C20_OneRowPerRecordAsStated ==
    rpc = "done" =>
        /\ Len(result) = Len(zip_county_df)
        /\ \A k \in DOMAIN result : result[k].idx = k

\* C20 amended: mergeLA9 returns exactly one row for every input record;
\* merge6boston returns exactly one row for every record that is not of GU,
\* VI or PR and not of class H4, and no row for the others; in both the rows
\* are in the order of the records and each row has the ZIP, the state and the
\* original county name of its record.
C20_OneRowPerRecord ==
    rpc = "done" =>
        /\ \A i \in DOMAIN zip_county_df :
              Cardinality(RowsOf(i)) =
                  IF \/ variant = "mergeLA9"
                     \/ /\ zip_county_df[i].STATE_ \notin {"GU", "VI", "PR"}
                        /\ zip_county_df[i].CLASSFP # "H4"
                  THEN 1 ELSE 0
        /\ \A k \in DOMAIN result :
              /\ result[k].idx \in DOMAIN zip_county_df
              /\ result[k].zip_code = NormalizeZip(zip_county_df[result[k].idx].ZIP)
              /\ result[k].state = zip_county_df[result[k].idx].STATE_
              /\ result[k].county_original = zip_county_df[result[k].idx].COUNTYNAME
        /\ \A k, m \in DOMAIN result : k < m => result[k].idx < result[m].idx

\* merge6boston has returned the rows of the records around a record of class
\* H4 that it left out
C20_Witness ==
    /\ variant = "merge6boston" /\ rpc = "done"
    /\ \E i \in DOMAIN zip_county_df :
          /\ zip_county_df[i].CLASSFP = "H4"
          /\ RowsOf(i) = {}
          /\ \E k \in DOMAIN result : result[k].idx > i

\* the rows of the mapping with a null rating_area, by their record
NullRows == {k \in DOMAIN result : result[k].rating_area = NaN}

\* a record that no override, no ZIP3 rule and no county rule of the run matches
MatchedByNothing(rec) ==
    /\ ~(rec.STATE_ = "CA" /\ Zip3Of(rec) \in LA15 \cup LA16)
    /\ RuleArea(rec.STATE_, Zip3Of(rec)) = NaN
    /\ RuleArea(rec.STATE_, standardize_county_name(rec.COUNTYNAME)) = NaN

\* C21: when merge_rating_areas has returned, the unmatched report holds the
\* rows of the mapping whose rating_area is null, each once, in the order of
\* (state, county_original, zip_code), rows of equal keys in the order of the
\* mapping; no report is written when there is none; in mergeLA9 the null rows
\* are the rows of the non-territory records that nothing matched; the run
\* returns the mapping whether the report is empty or not.
C21_UnmatchedReport ==
    rpc = "done" =>
        /\ NullRows = {} <=> unmatched_csv = NoReport
        /\ NullRows # {} =>
              /\ Len(unmatched_csv) = Cardinality(NullRows)
              /\ \A k \in NullRows : \E n \in DOMAIN unmatched_csv :
                    /\ unmatched_csv[n].idx = result[k].idx
                    /\ unmatched_csv[n].state = result[k].state
                    /\ unmatched_csv[n].county_original = result[k].county_original
                    /\ unmatched_csv[n].zip_code = result[k].zip_code
              /\ \A n, m \in DOMAIN unmatched_csv :
                    n < m =>
                        \/ KeyLess(SortKey(unmatched_csv[n]), SortKey(unmatched_csv[m]))
                        \/ /\ SortKey(unmatched_csv[n]) = SortKey(unmatched_csv[m])
                           /\ unmatched_csv[n].idx < unmatched_csv[m].idx
        /\ variant = "mergeLA9" =>
              \A i \in DOMAIN zip_county_df :
                  (\E k \in NullRows : result[k].idx = i)
                      <=> /\ zip_county_df[i].STATE_ \notin territories
                          /\ MatchedByNothing(zip_county_df[i])

\* mergeLA9 has returned a mapping whose second row comes first in the report:
\* two unmatched rows of one state, the first with the greater county name
C21_Witness ==
    /\ variant = "mergeLA9" /\ rpc = "done"
    /\ Len(result) = 2
    /\ unmatched_csv # NoReport
    /\ Len(unmatched_csv) = 2
    /\ unmatched_csv[1].idx = 2
    /\ unmatched_csv[1].state = unmatched_csv[2].state

\* the rows of the batch with a real cost, with the ERROR sentinel, with the
\* N/A sentinel
CountOf(rows, costs) == Cardinality({k \in DOMAIN rows : rows[k].Cost \in costs})

\* C22: when a batch run of run_scraper_2026 or scraper_v2 is over, the
\* summary has three separate counts, the
\* results with a real cost, those with the ERROR sentinel and those with the
\* N/A sentinel, and they add up to the number of requests.
C22_SummaryThreeCounts ==
    (script \in {"run_scraper_2026", "scraper_v2"} /\ bpc = "done") =>
        \E a, b, c \in summary :
            /\ a[1] # b[1] /\ a[1] # c[1] /\ b[1] # c[1]
            /\ b[2] = CountOf(BatchRows, {ErrorSentinel})
            /\ c[2] = CountOf(BatchRows, {NA})
            /\ a[2] = Len(BatchRows) - b[2] - c[2]
            /\ a[2] + b[2] + c[2] = Len(df)

\* what the summary of run_scraper_2026 does give: the two counts it logs,
\* real costs and sentinels of either kind, add up to the number of requests
C22_TwoCounts ==
    (script = "run_scraper_2026" /\ bpc = "done") =>
        /\ <<"Total ZIPs processed", Len(df)>> \in summary
        /\ <<"Errors", CountOf(results, {NA, ERROR})>> \in summary
        /\ <<"Successful", Len(df) - CountOf(results, {NA, ERROR})>> \in summary

\* a step leaves every rating_area that is set as it is
KeepsAssigned ==
    \A k \in DOMAIN result :
        (k \in DOMAIN result' /\ result[k].rating_area # NaN)
            => result'[k].rating_area = result[k].rating_area

\* C23: no step of a run of merge_rating_areas changes a rating_area that an
\* earlier step of the run has set to a non-null value.
C23_WrittenOnce == [][KeepsAssigned]_vars

\* what holds: in merge6boston the county pass walks only the rows the ZIP3
\* pass left null, so no rating_area that is set is changed
C23_WrittenOnceBoston == [][variant = "merge6boston" => KeepsAssigned]_vars

\* C24: at every moment of a batch run at most one browser session is open:
\* the Batch Runner runs only while the Extractor is idle with its session
\* released, and an invocation that is being started (next request or next
\* retry) finds no browser and no driver left over from the previous one
C24_OneSessionAtATime ==
    /\ bpc # "awaiting" => (epc = "idle" /\ ~browser_open /\ ~playwright)
    /\ epc = "launch" => (~browser_open /\ ~playwright)
    /\ browser_open => (playwright /\ epc \in {"new_page", "protocol", "extract", "return", "except", "exit"})

\* app2 or scraper_v2 starts an invocation after an earlier one has returned
C24_Witness ==
    /\ script \in {"app2", "scraper_v2"}
    /\ epc = "launch"
    /\ \E i \in DOMAIN outcome : outcome[i] # NotCalled

\* the request whose invocation came last before the one being started
PreviousRequests == {i \in DOMAIN df : i < call.req /\ attempts[i] > 0}

PreviousRequest == CHOOSE i \in PreviousRequests : \A j \in PreviousRequests : j <= i

\* the invocation being started is the first one of a ZIP other than the ZIP
\* of the invocation before it
FirstOfNextZip ==
    /\ epc = "launch"
    /\ PreviousRequests # {}
    /\ ZipCode(df[PreviousRequest]) # call.zip_code

\* C25: between the last Extractor invocation for one ZIP and the first
\* invocation for the next distinct ZIP the Batch Runner has slept, whatever
\* the earlier ZIP ended with
C25_DelayBetweenZips ==
    (script \in {"app2", "scraper_v2", "run_scraper_2026"} /\ FirstOfNextZip)
        => slept # <<>>

\* app2.py and scraper_v2.py do sleep between two ZIPs
C25_DelayInApp2AndV2 ==
    (script \in {"app2", "scraper_v2"} /\ FirstOfNextZip) => slept # <<>>

\* every row of the results file is still there after the step, unchanged
\* and at the same place
RowsKept ==
    output_file # NoFile =>
        /\ output_file' # NoFile
        /\ Len(output_file') >= Len(output_file)
        /\ SubSeq(output_file', 1, Len(output_file)) = output_file

\* C26: the results file of scraper_v2 is append-only: every row in it stays,
\* unchanged and in the same relative order, after every later save; a save
\* only adds rows at the end
C26_AppendOnly == [][script = "scraper_v2" => RowsKept]_vars

\* county_standardized of every non-territory row is the normalizer applied to
\* the county_original of the row
StandardizedIsNormalized ==
    \A k \in DOMAIN result :
        result[k].state \notin territories =>
            result[k].county_standardized = Standardize(result[k].county_original)

\* C27: in the mapping the Resolver returns, county_standardized of every
\* non-territory record equals standardize_county_name applied to the
\* county_original of that record
C27_StandardizedColumn == rpc = "done" => StandardizedIsNormalized

\* merge6boston standardizes the column before it builds the result
C27_StandardizedColumnBoston ==
    (rpc = "done" /\ variant = "merge6boston") => StandardizedIsNormalized

\* the run found every request of its list in the results file it loaded
AllAlreadyProcessed ==
    /\ output_file # NoFile
    /\ df # <<>>
    /\ \A i \in DOMAIN df : AlreadyProcessed(ZipCode(df[i]), existing_zips)

\* C28: a resumed scraper_v2 run in which every request is already in the
\* results file invokes the Extractor zero times and, once it has gone
\* through its list, has terminated normally without raising an exception
C28_ResumedRunEndsNormally ==
    (script = "scraper_v2" /\ run > 1 /\ AllAlreadyProcessed)
        => /\ \A i \in DOMAIN attempts : attempts[i] = 0
           /\ bpc \in {"loop", "interrupted", "done"}

\* in such a run the Extractor is never invoked
C28_NoInvocation ==
    (script = "scraper_v2" /\ run > 1 /\ AllAlreadyProcessed)
        => \A i \in DOMAIN attempts : attempts[i] = 0

\* the results a completed run leaves: the frame process_csv returns, the
\* results file of scraper_v2
CompletedResults == IF script = "scraper_v2" THEN output_file ELSE results_df

\* exactly one row for every request of the list
OneRowPerRequest ==
    /\ CompletedResults # NoFile
    /\ Len(CompletedResults) = Len(df)
    /\ \A i \in DOMAIN df :
          Cardinality({k \in DOMAIN CompletedResults : CompletedResults[k].req = i}) = 1

\* C29: when a batch run over a list of distinct ZIPs completes, the results
\* hold exactly one row for every input request, whether its scrape returned a
\* cost, returned a sentinel, raised, or its state could not be determined
C29_OneRowPerRequest ==
    (script \in {"app", "scraper_v2", "run_scraper_2026"} /\ run = 1
        /\ bpc = "done" /\ DistinctZips)
        => OneRowPerRequest

\* run_scraper_2026 writes an ERROR row when the scrape raises
C29_OneRowPerRequestRun2026 ==
    (script = "run_scraper_2026" /\ bpc = "done") => OneRowPerRequest

\* the YAML that was loaded has a 2026-01-01 entry for area a of state s
Had2026(s, a) == \E d \in DOMAIN tin.data[s][a] : DateToStr(d) = Key2026

\* the rows of the results for area a of state s, sentinel or not
ResultRows(s, a) ==
    {i \in DOMAIN tin.rows :
        /\ tin.rows[i].State = s
        /\ tin.rows[i].rating_area # NaNText
        /\ area_key(tin.rows[i].rating_area) = a}

\* C30: in update_yaml_2026 a sentinel result never becomes a premium: a
\* 2026-01-01 value that was written is a number, the cost of a non-sentinel
\* result of that (state, rating area), and an area whose results are all
\* ERROR or N/A gets no 2026-01-01 entry
C30_SentinelNeverPremium ==
    (tool = "update_yaml_2026" /\ tpc = "done") =>
        \A s \in DOMAIN tout : \A a \in DOMAIN tout[s] :
            /\ (Key2026 \in DOMAIN tout[s][a] /\ ~Had2026(s, a)) =>
                  /\ tout[s][a][Key2026] # NaNText
                  /\ \E i \in CostRows(s, a) :
                        tout[s][a][Key2026] = to_numeric(tin.rows[i].Cost)
            /\ (ResultRows(s, a) # {} /\ CostRows(s, a) = {}) =>
                  (Key2026 \in DOMAIN tout[s][a] <=> Had2026(s, a))

\* an area whose results are all ERROR gets no 2026-01-01 entry
C30_ErrorNeverPremium ==
    (tool = "update_yaml_2026" /\ tpc = "done") =>
        \A s \in DOMAIN tout : \A a \in DOMAIN tout[s] :
            (/\ ResultRows(s, a) # {}
             /\ \A i \in ResultRows(s, a) : tin.rows[i].Cost = ERROR)
                => (Key2026 \in DOMAIN tout[s][a] <=> Had2026(s, a))

====
